---- MODULE Spec2Model ----
(***************************************************************************)
(* A model of the rss-ios backend (Express server) and of the helpers it   *)
(* shares with the mobile client.                                          *)
(*                                                                         *)
(*   Spec          POST /api/summarize, the {text, url, itemUrl} handler   *)
(*   SpecTruncate  the prefix cut applied to content before submission     *)
(*   SpecStrip     stripHtml / stripHtmlTags                               *)
(*   SpecSplit     the block splitter of the feed endpoint                 *)
(*   SpecFeed      GET /api/wikipedia-daily-events                         *)
(*   SpecDetail    the mobile client's detail screen (SpecDetailFair: with *)
(*                 weak fairness of its steps)                             *)
(*   SpecTwo       two summarize requests interleaved at their awaits      *)
(*   SpecPage      one summarize request, with what each page fetch met    *)
(*   SpecSend      one request through each revision of the handler        *)
(*   SpecList      the mobile client's feed list screen                    *)
(*                                                                         *)
(* JavaScript strings are TLA+ strings; an optional value (a property that *)
(* may be undefined) is the empty tuple or a one-element tuple.            *)
(***************************************************************************)
EXTENDS Integers, Sequences, FiniteSets, TLC

VARIABLES
    \* ---- POST /api/summarize ----
    apiKey,                     \* process.env.OPENAI_API_KEY is set and non-empty
    body,                       \* req.body: None when no body was parsed
    pc,                         \* the handler's position
    articleContentToSummarize,  \* string | null
    commentContentToSummarize,  \* string | null
    responsePayload,            \* {articleSummary?, commentSummary?, error?}
    outbound,                   \* the outbound calls made so far, in order
    settled,                    \* how each outbound call settled, in the same order
    responses,                  \* the responses written to res, in order
    \* ---- pure helpers under test ----
    fn,                         \* which helper the harness applies
    input,                      \* its argument
    output,                     \* its successive results
    stage,                      \* how many times it has been applied
    \* ---- GET /api/wikipedia-daily-events ----
    feed,                       \* what parser.parseURL yields: None when it throws
    fpc,                        \* the handler's position
    entryIdx,                   \* index of dailyEntry in feed.items (1-based)
    blocks,                     \* the current entry's blocks
    blockPos,                   \* position of blockText in blocks (1-based)
    blockIndex,                 \* the source's blockIndex counter
    dailyEntryGuid,             \* guid of the entry being processed
    processedEvents,            \* ProcessedWikipediaEvent[]
    inFlight,                   \* completion calls awaiting their answer
    completionLog,              \* the blocks (entry, position, event id) in the order
                                \* their completion calls were made
    blockOutcomes,              \* how each of those completion calls settled, in order
    nowTick,                    \* Date.now(), coarse
    feedResponses,              \* the responses written to res, in order
    \* ---- mobile client: the detail screen ----
    feedItem,                   \* route.params.feedItem
    dpc,                        \* where fetchSummaries stands
    commentSummary,             \* useState<string | null>
    isCommentLoading,           \* useState<boolean>
    commentError,               \* useState<string | null>
    articleSummary,             \* useState<string | null>
    isArticleLoading,           \* useState<boolean>
    articleError,               \* useState<string | null>
    request,                    \* the payload POSTed to /api/summarize, if any
    reply,                      \* how that request settled, once it has
    \* ---- POST /api/summarize: two requests in the same process ----
    reqs,                       \* the locals of each request's handler call
    pages,                      \* what axios.get met at each page fetch, in order
    hv,                         \* which revision of the summarize handler serves the request
    hst,                        \* the locals of that handler's call
    selectedFeed,               \* FeedListScreen: the key of the selected source
    loading,                    \* FeedListScreen: a fetch is being waited for
    error,                      \* FeedListScreen: the message of the failed fetch
    feedItems,                  \* FeedListScreen: the items on display
    pendingEffect,              \* the source the useEffect is still to fetch
    fetches,                    \* the calls of fetchFeed awaiting their response
    issued                      \* how many calls of fetchFeed have been made

sumVars  == <<apiKey, body, pc, articleContentToSummarize, commentContentToSummarize,
              responsePayload, outbound, settled, responses>>
fnVars   == <<fn, input, output, stage>>
feedVars == <<feed, fpc, entryIdx, blocks, blockPos, blockIndex, dailyEntryGuid,
              processedEvents, inFlight, completionLog, blockOutcomes, nowTick,
              feedResponses>>
detailVars == <<feedItem, dpc, commentSummary, isCommentLoading, commentError,
                articleSummary, isArticleLoading, articleError, request, reply>>
clientVars == <<detailVars>>
twoVars  == <<reqs, pages>>
sendVars == <<hv, hst>>
listVars == <<selectedFeed, loading, error, feedItems, pendingEffect, fetches, issued>>
extraVars == <<twoVars, sendVars, listVars>>
vars     == <<sumVars, fnVars, feedVars, clientVars, extraVars>>

(***************************************************************************)
(* Optional values and JavaScript truthiness of strings.                   *)
(***************************************************************************)
None == <<>>
Some(v) == <<v>>
IsSome(o) == o # None
Truthy(o) == o # None /\ o[1] # ""

(***************************************************************************)
(* Strings.                                                                *)
(***************************************************************************)
CharAt(s, i) == SubSeq(s, i, i)

\* The characters \s and String.prototype.trim treat as white space.
WhiteSpace == {" ", "\n", "\t"}

RECURSIVE TrimStart(_)
TrimStart(s) ==
    IF s = "" THEN ""
    ELSE IF Head(s) \in WhiteSpace THEN TrimStart(Tail(s)) ELSE s

RECURSIVE TrimEnd(_)
TrimEnd(s) ==
    IF s = "" THEN ""
    ELSE IF CharAt(s, Len(s)) \in WhiteSpace THEN TrimEnd(SubSeq(s, 1, Len(s) - 1)) ELSE s

\* String.prototype.trim
Trim(s) == TrimEnd(TrimStart(s))

\* String.prototype.substring(0, n)
Substring0(s, n) == SubSeq(s, 1, IF n < Len(s) THEN n ELSE Len(s))

\* All strings over the alphabet A of length exactly n, and of length at most n.
RECURSIVE StringsOfLen(_, _)
StringsOfLen(A, n) ==
    IF n = 0 THEN {""}
    ELSE {s \o c : s \in StringsOfLen(A, n - 1), c \in A}

StringsUpTo(A, n) == UNION {StringsOfLen(A, k) : k \in 0..n}

(***************************************************************************)
(* POST /api/summarize: the {text, url, itemUrl} handler.                  *)
(***************************************************************************)
MAX_CONTENT_LENGTH == 12000
MAX_COMMENT_LENGTH == 12000

\* The values a request may carry in each field: absent, empty, non-empty.
Texts    == {None, Some(""), Some("t")}
Urls     == {None, Some(""), Some("http://a")}
ItemUrls == {None, Some(""), Some("http://c")}
Bodies   == {Some([text |-> t, url |-> u, itemUrl |-> i]) :
                 t \in Texts, u \in Urls, i \in ItemUrls}

\* What fetchAndParseURL resolves to: null (axios threw, or Readability found
\* no text) or the extracted text, which is never empty.
FetchedContents == {"p", "pq"}
FetchResults    == {None} \cup {Some(c) : c \in FetchedContents}

\* How openai.completions.create settles: a completion whose first choice has
\* the given text, a completion with no choices, or a rejection.
CompletionTexts   == {" s ", " "}
CompletionErrors  == {"401", "timeout"}
CompletionResults ==
    {[kind |-> "ok", text |-> t] : t \in CompletionTexts}
        \cup {[kind |-> "nochoices", text |-> ""]}
        \cup {[kind |-> "throw", text |-> m] : m \in CompletionErrors}

\* Without a credential the completion service rejects every call.
CompletionResultsFor(key) ==
    IF key THEN CompletionResults
    ELSE {r \in CompletionResults : r.kind = "throw"}

NoChoicesMessage == "Cannot read properties of undefined (reading 'text')"

EmptyPayload == [articleSummary |-> None, commentSummary |-> None, error |-> None]

\* responsePayload.error = (responsePayload.error ? responsePayload.error + '; ' : '') + msg
AppendError(payload, msg) ==
    [payload EXCEPT !.error =
        Some((IF Truthy(payload.error) THEN payload.error[1] \o "; " ELSE "") \o msg)]

\* Variant: the cut appends an ellipsis, as the older handlers did.
TruncateArticle_Ellipsis(content) ==
    IF Len(content) > MAX_CONTENT_LENGTH
    THEN Substring0(content, MAX_CONTENT_LENGTH) \o "..." ELSE content

\* if (content.length > MAX) content = content.substring(0, MAX)
TruncateArticle(content) ==
    IF Len(content) > MAX_CONTENT_LENGTH
    THEN Substring0(content, MAX_CONTENT_LENGTH) ELSE content

TruncateComment(content) ==
    IF Len(content) > MAX_COMMENT_LENGTH
    THEN Substring0(content, MAX_COMMENT_LENGTH) ELSE content

ArticlePrompt(content) ==
    "Please provide a concise summary of the following article content. Focus on the main points, key arguments, and conclusions. Article content:\n\n"
        \o content

CommentPrompt(content) ==
    "Review the following online discussion or comments. Identify and summarize the most interesting, insightful, or prevalent opinions and questions. Discussion content:\n\n"
        \o content

\* A response: the status and the JSON body (its keys as optionals).
Response(status, b) == [status |-> status, body |-> b]
JsonBody(e, m, a, c) == [error |-> e, message |-> m, articleSummary |-> a, commentSummary |-> c]

\* Variants of the closing lines, each with one plausible slip.
\* Without the 400 check: an empty payload is sent as it is.
FinalResponse_No400(payload, b) ==
    IF /\ Truthy(payload.error)
       /\ ~Truthy(payload.articleSummary) /\ ~Truthy(payload.commentSummary)
    THEN Response(500, JsonBody(payload.error, None, None, None))
    ELSE Response(200, JsonBody(payload.error, None,
                                payload.articleSummary, payload.commentSummary))

\* Without the 500 check: a payload holding only an error is sent with 200.
FinalResponse_No500(payload, b) ==
    IF /\ ~Truthy(payload.articleSummary) /\ ~Truthy(payload.commentSummary)
       /\ ~Truthy(payload.error)
       /\ ~Truthy(b.text) /\ ~Truthy(b.url) /\ ~Truthy(b.itemUrl)
    THEN Response(400, JsonBody(Some("No content provided or URLs found for summarization"),
                                None, None, None))
    ELSE Response(200, JsonBody(payload.error, None,
                                payload.articleSummary, payload.commentSummary))

\* A 200 that leaves the accumulated error out of the body.
FinalResponse_DropError(payload, b) ==
    IF /\ ~Truthy(payload.articleSummary) /\ ~Truthy(payload.commentSummary)
       /\ ~Truthy(payload.error)
       /\ ~Truthy(b.text) /\ ~Truthy(b.url) /\ ~Truthy(b.itemUrl)
    THEN Response(400, JsonBody(Some("No content provided or URLs found for summarization"),
                                None, None, None))
    ELSE IF /\ Truthy(payload.error)
            /\ ~Truthy(payload.articleSummary) /\ ~Truthy(payload.commentSummary)
    THEN Response(500, JsonBody(payload.error, None, None, None))
    ELSE Response(200, JsonBody(None, None,
                                payload.articleSummary, payload.commentSummary))

\* Any recorded error makes the answer a 500, summaries or not.
FinalResponse_AnyErrorIs500(payload, b) ==
    IF /\ ~Truthy(payload.articleSummary) /\ ~Truthy(payload.commentSummary)
       /\ ~Truthy(payload.error)
       /\ ~Truthy(b.text) /\ ~Truthy(b.url) /\ ~Truthy(b.itemUrl)
    THEN Response(400, JsonBody(Some("No content provided or URLs found for summarization"),
                                None, None, None))
    ELSE IF Truthy(payload.error)
    THEN Response(500, JsonBody(payload.error, None, None, None))
    ELSE Response(200, JsonBody(payload.error, None,
                                payload.articleSummary, payload.commentSummary))

\* The closing lines of the handler: which response the payload gets.
FinalResponse(payload, b) ==
    IF /\ ~Truthy(payload.articleSummary) /\ ~Truthy(payload.commentSummary)
       /\ ~Truthy(payload.error)
       /\ ~Truthy(b.text) /\ ~Truthy(b.url) /\ ~Truthy(b.itemUrl)
    THEN Response(400, JsonBody(Some("No content provided or URLs found for summarization"),
                                None, None, None))
    ELSE IF /\ Truthy(payload.error)
            /\ ~Truthy(payload.articleSummary) /\ ~Truthy(payload.commentSummary)
    THEN Response(500, JsonBody(payload.error, None, None, None))
    ELSE Response(200, JsonBody(payload.error, None,
                                payload.articleSummary, payload.commentSummary))

\* Variant: the fallback handler answers without the error's message.
FallbackResponse_NoMessage(message) ==
    Response(500, JsonBody(Some("Internal Server Error"), None, None, None))

\* The fallback error handler of the application.
FallbackResponse(message) ==
    Response(500, JsonBody(Some("Internal Server Error"), Some(message), None, None))

\* An outbound call, and how one settled (ok: it resolved to a usable value).
FetchCall(source, url) == [kind |-> "fetch", source |-> source, arg |-> url]
CompletionCall(source, prompt) == [kind |-> "completion", source |-> source, arg |-> prompt]
FetchSettled(source, r) ==
    [kind |-> "fetch", source |-> source, ok |-> r # None,
     value |-> IF r # None THEN r[1] ELSE ""]
CompletionSettled(source, c) ==
    [kind |-> "completion", source |-> source, ok |-> c.kind = "ok", value |-> c.text]

SumIdle ==
    /\ apiKey = TRUE /\ body = None /\ pc = "off"
    /\ articleContentToSummarize = None /\ commentContentToSummarize = None
    /\ responsePayload = EmptyPayload
    /\ outbound = <<>> /\ settled = <<>> /\ responses = <<>>

SumInit ==
    /\ apiKey \in BOOLEAN
    /\ body \in Bodies \cup {None}
    /\ pc = "L69"
    /\ articleContentToSummarize = None
    /\ commentContentToSummarize = None
    /\ responsePayload = EmptyPayload
    /\ outbound = <<>>
    /\ settled = <<>>
    /\ responses = <<>>

\* The TypeError the destructuring of an undefined req.body throws.
DestructureMessage == "Cannot destructure property 'text' of 'req.body' as it is undefined."

\* const { text, url, itemUrl } = req.body throws when req.body is undefined;
\* the catch passes the error to next(), which reaches the fallback handler.
DestructureFails ==
    /\ pc = "L69" /\ body = None
    /\ responses' = Append(responses, FallbackResponse(DestructureMessage))
    /\ pc' = "done"
    /\ UNCHANGED <<apiKey, body, articleContentToSummarize, commentContentToSummarize,
                   responsePayload, outbound, settled>>

\* if (text) articleContentToSummarize = text
Receive ==
    /\ pc = "L69" /\ body # None
    /\ articleContentToSummarize' = IF Truthy(body[1].text) THEN body[1].text ELSE None
    /\ pc' = "L81"
    /\ UNCHANGED <<apiKey, body, commentContentToSummarize, responsePayload, outbound,
                   settled, responses>>

\* Variant: the guard tests articleUrl !== undefined, so an empty url is fetched.
ArticleFetchIssue_DefinedCheck ==
    /\ pc = "L81"
    /\ IF IsSome(body[1].url)
       THEN /\ outbound' = Append(outbound, FetchCall("article", body[1].url[1]))
            /\ pc' = "W83"
       ELSE /\ pc' = "L91"
            /\ UNCHANGED outbound
    /\ UNCHANGED <<apiKey, body, articleContentToSummarize, commentContentToSummarize,
                   responsePayload, settled, responses>>

\* if (articleUrl) { ... await fetchAndParseURL(articleUrl)
ArticleFetchIssue ==
    /\ pc = "L81"
    /\ IF Truthy(body[1].url)
       THEN /\ outbound' = Append(outbound, FetchCall("article", body[1].url[1]))
            /\ pc' = "W83"
       ELSE /\ pc' = "L91"
            /\ UNCHANGED outbound
    /\ UNCHANGED <<apiKey, body, articleContentToSummarize, commentContentToSummarize,
                   responsePayload, settled, responses>>

\* Variant: a failed article fetch is tried a second time.
ArticleFetchReturn_RetryOnce ==
    /\ pc = "W83"
    /\ \E parsedArticle \in FetchResults :
         /\ IF Truthy(parsedArticle)
            THEN /\ articleContentToSummarize' = parsedArticle
                 /\ UNCHANGED responsePayload
                 /\ pc' = "L91"
            ELSE IF Len(outbound) = 1
            THEN /\ UNCHANGED <<articleContentToSummarize, responsePayload>>
                 /\ pc' = "L81"
            ELSE /\ responsePayload' = AppendError(responsePayload,
                         "Failed to fetch/parse article from " \o body[1].url[1])
                 /\ UNCHANGED articleContentToSummarize
                 /\ pc' = "L91"
         /\ settled' = Append(settled, FetchSettled("article", parsedArticle))
    /\ UNCHANGED <<apiKey, body, commentContentToSummarize, outbound, responses>>

\* Variant: a failed article fetch leaves no trace in the payload.
ArticleFetchReturn_SilentFailure ==
    /\ pc = "W83"
    /\ \E parsedArticle \in FetchResults :
         /\ IF Truthy(parsedArticle)
            THEN articleContentToSummarize' = parsedArticle
            ELSE UNCHANGED articleContentToSummarize
         /\ settled' = Append(settled, FetchSettled("article", parsedArticle))
    /\ pc' = "L91"
    /\ UNCHANGED <<apiKey, body, commentContentToSummarize, responsePayload, outbound,
                   responses>>

ArticleFetchReturn ==
    /\ pc = "W83"
    /\ \E parsedArticle \in FetchResults :
         /\ IF Truthy(parsedArticle)
            THEN /\ articleContentToSummarize' = parsedArticle
                 /\ UNCHANGED responsePayload
            ELSE /\ responsePayload' = AppendError(responsePayload,
                         "Failed to fetch/parse article from " \o body[1].url[1])
                 /\ UNCHANGED articleContentToSummarize
         /\ settled' = Append(settled, FetchSettled("article", parsedArticle))
    /\ pc' = "L91"
    /\ UNCHANGED <<apiKey, body, commentContentToSummarize, outbound, responses>>

\* Variant: the comment source is skipped once an error has been recorded.
CommentFetchIssue_SkipOnError ==
    /\ pc = "L91"
    /\ IF Truthy(body[1].itemUrl) /\ ~Truthy(responsePayload.error)
       THEN /\ outbound' = Append(outbound, FetchCall("comment", body[1].itemUrl[1]))
            /\ pc' = "W93"
       ELSE /\ pc' = "L101"
            /\ UNCHANGED outbound
    /\ UNCHANGED <<apiKey, body, articleContentToSummarize, commentContentToSummarize,
                   responsePayload, settled, responses>>

\* if (commentUrl) { ... await fetchAndParseURL(commentUrl)
CommentFetchIssue ==
    /\ pc = "L91"
    /\ IF Truthy(body[1].itemUrl)
       THEN /\ outbound' = Append(outbound, FetchCall("comment", body[1].itemUrl[1]))
            /\ pc' = "W93"
       ELSE /\ pc' = "L101"
            /\ UNCHANGED outbound
    /\ UNCHANGED <<apiKey, body, articleContentToSummarize, commentContentToSummarize,
                   responsePayload, settled, responses>>

CommentFetchReturn ==
    /\ pc = "W93"
    /\ \E parsedComments \in FetchResults :
         /\ IF Truthy(parsedComments)
            THEN /\ commentContentToSummarize' = parsedComments
                 /\ UNCHANGED responsePayload
            ELSE /\ responsePayload' = AppendError(responsePayload,
                         "Failed to fetch/parse comments from " \o body[1].itemUrl[1])
                 /\ UNCHANGED commentContentToSummarize
         /\ settled' = Append(settled, FetchSettled("comment", parsedComments))
    /\ pc' = "L101"
    /\ UNCHANGED <<apiKey, body, articleContentToSummarize, outbound, responses>>

\* if (articleContentToSummarize) { truncate; await openai.completions.create(...)
ArticleCompletionIssue ==
    /\ pc = "L101"
    /\ IF Truthy(articleContentToSummarize)
       THEN /\ articleContentToSummarize' = Some(TruncateArticle(articleContentToSummarize[1]))
            /\ outbound' = Append(outbound,
                   CompletionCall("article", ArticlePrompt(articleContentToSummarize'[1])))
            /\ pc' = "W110"
       ELSE /\ pc' = "L124"
            /\ UNCHANGED <<articleContentToSummarize, outbound>>
    /\ UNCHANGED <<apiKey, body, commentContentToSummarize, responsePayload, settled,
                   responses>>

ArticleCompletionReturn ==
    /\ pc = "W110"
    /\ \E completion \in CompletionResultsFor(apiKey) :
         /\ settled' = Append(settled, CompletionSettled("article", completion))
         /\ responsePayload' =
           CASE completion.kind = "ok" ->
                  [responsePayload EXCEPT !.articleSummary = Some(Trim(completion.text))]
             [] completion.kind = "nochoices" ->
                  AppendError(responsePayload, "OpenAI error for article: " \o NoChoicesMessage)
             [] completion.kind = "throw" ->
                  AppendError(responsePayload, "OpenAI error for article: " \o completion.text)
    /\ pc' = "L124"
    /\ UNCHANGED <<apiKey, body, articleContentToSummarize, commentContentToSummarize,
                   outbound, responses>>

\* if (commentContentToSummarize) { truncate; await openai.completions.create(...)
CommentCompletionIssue ==
    /\ pc = "L124"
    /\ IF Truthy(commentContentToSummarize)
       THEN /\ commentContentToSummarize' = Some(TruncateComment(commentContentToSummarize[1]))
            /\ outbound' = Append(outbound,
                   CompletionCall("comment", CommentPrompt(commentContentToSummarize'[1])))
            /\ pc' = "W133"
       ELSE /\ pc' = "L147"
            /\ UNCHANGED <<commentContentToSummarize, outbound>>
    /\ UNCHANGED <<apiKey, body, articleContentToSummarize, responsePayload, settled,
                   responses>>

\* Variant: the catch of the comment completion logs the failure only.
CommentCompletionReturn_LogOnly ==
    /\ pc = "W133"
    /\ \E completion \in CompletionResultsFor(apiKey) :
         /\ settled' = Append(settled, CompletionSettled("comment", completion))
         /\ responsePayload' =
           IF completion.kind = "ok"
           THEN [responsePayload EXCEPT !.commentSummary = Some(Trim(completion.text))]
           ELSE responsePayload
    /\ pc' = "L147"
    /\ UNCHANGED <<apiKey, body, articleContentToSummarize, commentContentToSummarize,
                   outbound, responses>>

CommentCompletionReturn ==
    /\ pc = "W133"
    /\ \E completion \in CompletionResultsFor(apiKey) :
         /\ settled' = Append(settled, CompletionSettled("comment", completion))
         /\ responsePayload' =
           CASE completion.kind = "ok" ->
                  [responsePayload EXCEPT !.commentSummary = Some(Trim(completion.text))]
             [] completion.kind = "nochoices" ->
                  AppendError(responsePayload, "OpenAI error for comments: " \o NoChoicesMessage)
             [] completion.kind = "throw" ->
                  AppendError(responsePayload, "OpenAI error for comments: " \o completion.text)
    /\ pc' = "L147"
    /\ UNCHANGED <<apiKey, body, articleContentToSummarize, commentContentToSummarize,
                   outbound, responses>>

\* The 400 / 500 / 200 decision and res.json.
Respond ==
    /\ pc = "L147"
    /\ responses' = Append(responses, FinalResponse(responsePayload, body[1]))
    /\ pc' = "done"
    /\ UNCHANGED <<apiKey, body, articleContentToSummarize, commentContentToSummarize,
                   responsePayload, outbound, settled>>


FnIdle == fn = "" /\ input = "" /\ output = <<>> /\ stage = 0

FeedIdle ==
    /\ feed = None /\ fpc = "off" /\ entryIdx = 0 /\ blocks = <<>> /\ blockPos = 0
    /\ blockIndex = 0 /\ dailyEntryGuid = "" /\ processedEvents = <<>>
    /\ inFlight = 0 /\ completionLog = <<>> /\ blockOutcomes = <<>>
    /\ nowTick = 0 /\ feedResponses = <<>>

DetailIdle ==
    /\ feedItem = None /\ dpc = "off"
    /\ commentSummary = None /\ isCommentLoading = FALSE /\ commentError = None
    /\ articleSummary = None /\ isArticleLoading = FALSE /\ articleError = None
    /\ request = None /\ reply = None

ClientIdle == DetailIdle

TwoIdle == reqs = <<>> /\ pages = <<>>

SendIdle == hv = "" /\ hst = <<>>
ListIdle ==
    /\ selectedFeed = "" /\ loading = FALSE /\ error = None /\ feedItems = <<>>
    /\ pendingEffect = None /\ fetches = {} /\ issued = 0
ExtraIdle == TwoIdle /\ SendIdle /\ ListIdle

Init == SumInit /\ FnIdle /\ FeedIdle /\ ClientIdle /\ ExtraIdle

Next ==
    \/ DestructureFails /\ UNCHANGED <<fnVars, feedVars, clientVars, extraVars>>
    \/ Receive /\ UNCHANGED <<fnVars, feedVars, clientVars, extraVars>>
    \/ ArticleFetchIssue /\ UNCHANGED <<fnVars, feedVars, clientVars, extraVars>>
    \/ ArticleFetchReturn /\ UNCHANGED <<fnVars, feedVars, clientVars, extraVars>>
    \/ CommentFetchIssue /\ UNCHANGED <<fnVars, feedVars, clientVars, extraVars>>
    \/ CommentFetchReturn /\ UNCHANGED <<fnVars, feedVars, clientVars, extraVars>>
    \/ ArticleCompletionIssue /\ UNCHANGED <<fnVars, feedVars, clientVars, extraVars>>
    \/ ArticleCompletionReturn /\ UNCHANGED <<fnVars, feedVars, clientVars, extraVars>>
    \/ CommentCompletionIssue /\ UNCHANGED <<fnVars, feedVars, clientVars, extraVars>>
    \/ CommentCompletionReturn /\ UNCHANGED <<fnVars, feedVars, clientVars, extraVars>>
    \/ Respond /\ UNCHANGED <<fnVars, feedVars, clientVars, extraVars>>

Spec == Init /\ [][Next]_vars


(***************************************************************************)
(* Properties of POST /api/summarize.                                      *)
(***************************************************************************)
Done == pc = "done"
TheResponse == responses[Len(responses)]

\* What the request asks for.
HasBody        == body # None
NoUsableInput  == HasBody /\ ~Truthy(body[1].text) /\ ~Truthy(body[1].url)
                          /\ ~Truthy(body[1].itemUrl)
BothUrls       == HasBody /\ Truthy(body[1].url) /\ Truthy(body[1].itemUrl)

\* What happened to the outbound calls of one content source.
Attempted(kind, source) ==
    \E i \in 1..Len(outbound) : outbound[i].kind = kind /\ outbound[i].source = source
Succeeded(kind, source) ==
    \E i \in 1..Len(settled) :
        settled[i].kind = kind /\ settled[i].source = source /\ settled[i].ok
Failed(kind, source) ==
    \E i \in 1..Len(settled) :
        settled[i].kind = kind /\ settled[i].source = source /\ ~settled[i].ok
SourceFailed(source) == Failed("fetch", source) \/ Failed("completion", source)
\* The completion call of the source returned a text that is not blank.
NonBlankCompletion(source) ==
    \E i \in 1..Len(settled) :
        /\ settled[i].kind = "completion" /\ settled[i].source = source
        /\ settled[i].ok /\ Trim(settled[i].value) # ""
SummaryField(b, source) ==
    IF source = "article" THEN b.articleSummary ELSE b.commentSummary
Other(source) == IF source = "article" THEN "comment" ELSE "article"
Sources == {"article", "comment"}

\* C1: every response sent for a summarize request carries at least one of
\* the fields articleSummary, commentSummary, error.
C1_ResponseNeverEmpty ==
    \A i \in 1..Len(responses) :
        \/ IsSome(responses[i].body.articleSummary)
        \/ IsSome(responses[i].body.commentSummary)
        \/ IsSome(responses[i].body.error)

\* C1 witness: a 200 response whose only field is a summary (no error).
C1_Witness ==
    /\ Done /\ TheResponse.status = 200
    /\ TheResponse.body.error = None /\ TheResponse.body.commentSummary = None
    /\ IsSome(TheResponse.body.articleSummary)

\* C2 (as stated): with url and itemUrl both present, a failure of one source
\* never stops the other source's fetch and completion call from being
\* attempted, and whenever the other source's fetch and completion call
\* succeed its summary field is in the response.
C2_IndependentSources_Original ==
    (Done /\ BothUrls) =>
        \A src \in Sources :
            /\ Attempted("fetch", src)
            /\ Succeeded("fetch", src) => Attempted("completion", src)
            /\ (Succeeded("fetch", src) /\ Succeeded("completion", src))
                   => IsSome(SummaryField(TheResponse.body, src))

\* C2 (amended): the same, for a completion that returned a non-blank text:
\* the summary field is then in the response with the trimmed text, whatever
\* happened to the other source.
C2_IndependentSources ==
    (Done /\ BothUrls) =>
        \A src \in Sources :
            /\ Attempted("fetch", src)
            /\ Succeeded("fetch", src) => Attempted("completion", src)
            /\ (Succeeded("fetch", src) /\ NonBlankCompletion(src))
                   => /\ TheResponse.status = 200
                      /\ Truthy(SummaryField(TheResponse.body, src))

\* C2 witness: the article source failed and the comment source went through.
C2_Witness ==
    /\ Done /\ BothUrls
    /\ SourceFailed("article") /\ ~Truthy(responsePayload.articleSummary)
    /\ Succeeded("fetch", "comment") /\ NonBlankCompletion("comment")

\* Exactly one source produced a summary and the other, requested, source failed.
PartialSuccess(src) ==
    /\ Done /\ HasBody
    /\ Succeeded("completion", src)
    /\ ~Succeeded("completion", Other(src))
    /\ SourceFailed(Other(src))
NonBlankPartialSuccess(src) == PartialSuccess(src) /\ NonBlankCompletion(src)

\* C3 (as stated): partial success is answered 200 with the one summary field
\* populated and no error field.
C3_PartialSuccess_Original ==
    \A src \in Sources :
        PartialSuccess(src) =>
            /\ TheResponse.status = 200
            /\ IsSome(SummaryField(TheResponse.body, src))
            /\ TheResponse.body.error = None

\* C3 (amended): partial success with a non-blank summary is answered 200 with
\* that summary field populated, the other summary field absent, and the
\* error field present, holding the accumulated error text.
C3_PartialSuccess ==
    \A src \in Sources :
        NonBlankPartialSuccess(src) =>
            /\ TheResponse.status = 200
            /\ Truthy(SummaryField(TheResponse.body, src))
            /\ SummaryField(TheResponse.body, Other(src)) = None
            /\ Truthy(TheResponse.body.error)
            /\ TheResponse.body.error = responsePayload.error

\* C3 witness: a comment summary was produced after the article fetch failed.
C3_Witness ==
    /\ NonBlankPartialSuccess("comment")
    /\ Failed("fetch", "article")

\* C4: a request with no usable input is answered 400 with an error message;
\* a request whose sources all failed (an error recorded, no summary) is
\* answered 500 carrying that error; and a 200 always carries a summary field.
C4_NothingProducedIsNot200 ==
    (Done /\ HasBody) =>
        /\ NoUsableInput =>
              /\ TheResponse.status = 400
              /\ Truthy(TheResponse.body.error)
        /\ (/\ ~NoUsableInput
            /\ Truthy(responsePayload.error)
            /\ ~Truthy(responsePayload.articleSummary)
            /\ ~Truthy(responsePayload.commentSummary)) =>
              /\ TheResponse.status = 500
              /\ TheResponse.body.error = responsePayload.error
        /\ TheResponse.status = 200 =>
              \/ IsSome(TheResponse.body.articleSummary)
              \/ IsSome(TheResponse.body.commentSummary)

\* C4 witness: both requested sources failed and the answer was a 500.
C4_Witness ==
    /\ Done /\ BothUrls
    /\ Failed("fetch", "article") /\ Failed("fetch", "comment")
    /\ body[1].text = None
    /\ TheResponse.status = 500

\* C5: a body with no text, no url and no itemUrl is answered 400 with an
\* error message, and no outbound call is made at any point of the request.
C5_EmptyBodyIs400WithoutCalls ==
    NoUsableInput =>
        /\ outbound = <<>>
        /\ Done => /\ Len(responses) = 1
                   /\ TheResponse.status = 400
                   /\ Truthy(TheResponse.body.error)

\* C5 witness: the request {} has been answered.
C5_Witness ==
    /\ Done
    /\ body = Some([text |-> None, url |-> None, itemUrl |-> None])
    /\ TheResponse.status = 400

\* C6: when the API key is absent, the request makes no outbound call (no
\* page fetch, no completion call) and is answered with a 5xx.
C6_NoKeyNoNetwork ==
    (~apiKey /\ HasBody) =>
        /\ outbound = <<>>
        /\ Done => TheResponse.status >= 500


(***************************************************************************)
(* The truncation of content before submission, applied to strings around  *)
(* the ceiling.  The helper is applied to its own result a second time.    *)
(***************************************************************************)
MaxOver  == 2        \* inputs are up to this many characters over the ceiling
MaxShort == 2        \* and, at the short end, up to this long

\* s repeated n times
RECURSIVE Repeat(_, _)
Repeat(s, n) ==
    IF n = 0 THEN ""
    ELSE IF n % 2 = 0 THEN LET h == Repeat(s, n \div 2) IN h \o h
    ELSE s \o Repeat(s, n - 1)

\* Strings of length n: a run of one character closed by another.
StringsLike(n) ==
    IF n = 0 THEN {""}
    ELSE {Repeat(c, n - 1) \o last : c \in {"a", "b"}, last \in {"y", "z"}}

TruncateLengths(ceiling) == (0..MaxShort) \cup ((ceiling - 2)..(ceiling + MaxOver))
TruncateInputs(ceiling) == UNION {StringsLike(n) : n \in TruncateLengths(ceiling)}

TruncateInit ==
    /\ \/ fn = "TruncateArticle" /\ input \in TruncateInputs(MAX_CONTENT_LENGTH)
       \/ fn = "TruncateComment" /\ input \in TruncateInputs(MAX_COMMENT_LENGTH)
    /\ output = <<>>
    /\ stage = 0
    /\ SumIdle /\ FeedIdle /\ ClientIdle /\ ExtraIdle

\* The argument of the next application: the input, then the last result.
Argument == IF stage = 0 THEN input ELSE output[stage]

ApplyTruncateArticle ==
    /\ fn = "TruncateArticle" /\ stage < 2
    /\ output' = Append(output, TruncateArticle(Argument))
    /\ stage' = stage + 1
    /\ UNCHANGED <<fn, input, sumVars, feedVars, clientVars, extraVars>>

ApplyTruncateComment ==
    /\ fn = "TruncateComment" /\ stage < 2
    /\ output' = Append(output, TruncateComment(Argument))
    /\ stage' = stage + 1
    /\ UNCHANGED <<fn, input, sumVars, feedVars, clientVars, extraVars>>

TruncateNext == ApplyTruncateArticle \/ ApplyTruncateComment

SpecTruncate == TruncateInit /\ [][TruncateNext]_vars

Ceiling == IF fn = "TruncateArticle" THEN MAX_CONTENT_LENGTH ELSE MAX_COMMENT_LENGTH

\* r is the string made of the first Len(r) characters of s
IsPrefixOf(r, s) ==
    /\ Len(r) <= Len(s)
    /\ \A i \in 1..Len(r) : CharAt(r, i) = CharAt(s, i)

\* C7: truncation is a prefix cut at the ceiling N: content of length at most
\* N comes back unchanged, longer content comes back as its first N
\* characters, and truncating a truncated value changes nothing.
C7_TruncationIsIdempotentPrefixCut ==
    /\ stage >= 1 =>
          /\ Len(input) <= Ceiling => output[1] = input
          /\ Len(input) > Ceiling =>
                /\ Len(output[1]) = Ceiling
                /\ IsPrefixOf(output[1], input)
    /\ stage >= 2 => output[2] = output[1]

\* C7 witness: content one character over the ceiling was cut, then truncated again.
C7_Witness ==
    /\ stage = 2
    /\ Len(input) = Ceiling + 1
    /\ Len(output[1]) = Ceiling
    /\ output[1] # input


(***************************************************************************)
(* stripHtml (backend) and stripHtmlTags (mobile client):                  *)
(*     if (!html) return '';  return html.replace(/<[^>]*>/g, '')          *)
(***************************************************************************)
MaxHtmlLen == 5
HtmlAlphabet == {"<", ">", "a", "b"}

\* The least i with s[i] = c, or 0: String.prototype.indexOf, 1-based.
RECURSIVE IndexOf(_, _)
IndexOf(s, c) ==
    IF s = "" THEN 0
    ELSE IF Head(s) = c THEN 1
    ELSE LET r == IndexOf(Tail(s), c) IN IF r = 0 THEN 0 ELSE r + 1

\* Variant: replace without the g flag removes the first tag only.
ReplaceTags_FirstOnly(s) ==
    LET lt == IndexOf(s, "<") IN
    IF lt = 0 THEN s
    ELSE LET rest == SubSeq(s, lt + 1, Len(s))
             gt   == IndexOf(rest, ">")
         IN IF gt = 0 THEN s
            ELSE SubSeq(s, 1, lt - 1) \o SubSeq(rest, gt + 1, Len(rest))

\* s.replace(/<[^>]*>/g, ''): scanning from the left, a '<' that has a '>'
\* after it is removed together with everything up to the first such '>';
\* any other character is kept.
RECURSIVE ReplaceTags(_)
ReplaceTags(s) ==
    IF s = "" THEN ""
    ELSE LET gt == IndexOf(Tail(s), ">") IN
         IF Head(s) = "<" /\ gt # 0
         THEN ReplaceTags(SubSeq(Tail(s), gt + 1, Len(s) - 1))
         ELSE Head(s) \o ReplaceTags(Tail(s))

\* server.ts: stripHtml
StripHtml(html) == IF html = "" THEN "" ELSE ReplaceTags(html)

\* stripHtmlTags.ts: stripHtmlTags
StripHtmlTags(html) == IF html = "" THEN "" ELSE ReplaceTags(html)

StripInit ==
    /\ fn \in {"stripHtml", "stripHtmlTags"}
    /\ input \in StringsUpTo(HtmlAlphabet, MaxHtmlLen)
    /\ output = <<>>
    /\ stage = 0
    /\ SumIdle /\ FeedIdle /\ ClientIdle /\ ExtraIdle

ApplyStripHtml ==
    /\ fn = "stripHtml" /\ stage = 0
    /\ output' = <<StripHtml(input)>>
    /\ stage' = 1
    /\ UNCHANGED <<fn, input, sumVars, feedVars, clientVars, extraVars>>

ApplyStripHtmlTags ==
    /\ fn = "stripHtmlTags" /\ stage = 0
    /\ output' = <<StripHtmlTags(input)>>
    /\ stage' = 1
    /\ UNCHANGED <<fn, input, sumVars, feedVars, clientVars, extraVars>>

StripNext == ApplyStripHtml \/ ApplyStripHtmlTags

SpecStrip == StripInit /\ [][StripNext]_vars

\* s holds a '<' with a '>' somewhere after it
HasTagLike(s) ==
    \E i \in 1..Len(s) : \E j \in (i + 1)..Len(s) :
        CharAt(s, i) = "<" /\ CharAt(s, j) = ">"

\* r can be obtained from s by deleting characters
RECURSIVE IsSubsequence(_, _)
IsSubsequence(r, s) ==
    IF r = "" THEN TRUE
    ELSE IF s = "" THEN FALSE
    ELSE IF Head(r) = Head(s) THEN IsSubsequence(Tail(r), Tail(s))
    ELSE IsSubsequence(r, Tail(s))

\* C8: the output of stripHtml / stripHtmlTags holds no '<' followed later by
\* a '>', and is a subsequence of the input (the characters that remain keep
\* their order).
C8_StripLeavesNoTags ==
    stage = 1 =>
        /\ ~HasTagLike(output[1])
        /\ IsSubsequence(output[1], input)

\* C8 witness: two tags were removed from around and between kept text.
C8_Witness ==
    /\ stage = 1
    /\ input = "<>b<a"
    /\ output[1] = "b<a"


(***************************************************************************)
(* The block splitter of the feed endpoint:                                *)
(*     const blocks = plainTextContent.split(/\n\s*\n/);                   *)
(*     for (const blockText of blocks) {                                   *)
(*       const trimmedBlock = blockText.trim();                            *)
(*       if (!trimmedBlock) continue;  ...                                 *)
(***************************************************************************)
MaxTextLen == 5
TextAlphabet == {"a", "b", "\n", " "}

\* The last index of the run of white space that starts at i (i - 1: no run).
RECURSIVE WhiteRunEnd(_, _)
WhiteRunEnd(s, i) ==
    IF i <= Len(s) /\ CharAt(s, i) \in WhiteSpace THEN WhiteRunEnd(s, i + 1) ELSE i - 1

\* The greatest j in lo..hi with s[j] a newline, or 0.
RECURSIVE LastNewline(_, _, _)
LastNewline(s, lo, hi) ==
    IF hi < lo THEN 0
    ELSE IF CharAt(s, hi) = "\n" THEN hi
    ELSE LastNewline(s, lo, hi - 1)

\* Variant: the separator /\n\n/, which a line of spaces does not match.
MatchEnd_NoWhiteSpace(s, q) ==
    IF CharAt(s, q) = "\n" /\ q < Len(s) /\ CharAt(s, q + 1) = "\n" THEN q + 1 ELSE 0

\* Where a match of /\n\s*\n/ that starts at q ends, or 0 when there is none:
\* \s* is greedy and gives back until the closing newline fits.
MatchEnd(s, q) ==
    IF CharAt(s, q) # "\n" THEN 0
    ELSE LastNewline(s, q + 1, WhiteRunEnd(s, q + 1))

\* String.prototype.split with the separator above: p is where the current
\* piece starts, q where the next match is tried.
RECURSIVE SplitFrom(_, _, _)
SplitFrom(s, p, q) ==
    IF q > Len(s) THEN <<SubSeq(s, p, Len(s))>>
    ELSE LET e == MatchEnd(s, q) IN
         IF e = 0 THEN SplitFrom(s, p, q + 1)
         ELSE <<SubSeq(s, p, q - 1)>> \o SplitFrom(s, e + 1, e + 1)

SplitBlocks(plainTextContent) == SplitFrom(plainTextContent, 1, 1)

\* The blocks the loop keeps: trimmed, the empty ones skipped.
RECURSIVE TrimmedNonEmpty(_)
TrimmedNonEmpty(bs) ==
    IF bs = <<>> THEN <<>>
    ELSE LET trimmedBlock == Trim(Head(bs)) IN
         IF trimmedBlock = "" THEN TrimmedNonEmpty(Tail(bs))
         ELSE <<trimmedBlock>> \o TrimmedNonEmpty(Tail(bs))

KeptBlocks(plainTextContent) == TrimmedNonEmpty(SplitBlocks(plainTextContent))

SplitInit ==
    /\ fn = "splitBlocks"
    /\ input \in StringsUpTo(TextAlphabet, MaxTextLen)
    /\ output = <<>>
    /\ stage = 0
    /\ SumIdle /\ FeedIdle /\ ClientIdle /\ ExtraIdle

ApplySplit ==
    /\ fn = "splitBlocks" /\ stage = 0
    /\ output' = <<KeptBlocks(input)>>
    /\ stage' = 1
    /\ UNCHANGED <<fn, input, sumVars, feedVars, clientVars, extraVars>>

SplitNext == ApplySplit

SpecSplit == SplitInit /\ [][SplitNext]_vars

\* The reference the splitter is compared with: the lines of the text, and
\* its paragraphs, a paragraph being a maximal run of lines that are not
\* blank (a blank line is empty or holds white space only).
RECURSIVE Lines(_)
Lines(s) ==
    LET nl == IndexOf(s, "\n") IN
    IF nl = 0 THEN <<s>>
    ELSE <<SubSeq(s, 1, nl - 1)>> \o Lines(SubSeq(s, nl + 1, Len(s)))

IsBlank(line) == \A i \in 1..Len(line) : CharAt(line, i) \in WhiteSpace

\* The paragraphs of a sequence of lines, each as its lines joined by newlines;
\* cur is the paragraph being collected ("" when none is open).
RECURSIVE ParagraphsOf(_, _)
ParagraphsOf(ls, cur) ==
    IF ls = <<>> THEN (IF cur = "" THEN <<>> ELSE <<cur>>)
    ELSE IF IsBlank(Head(ls))
         THEN (IF cur = "" THEN <<>> ELSE <<cur>>) \o ParagraphsOf(Tail(ls), "")
         ELSE ParagraphsOf(Tail(ls), IF cur = "" THEN Head(ls) ELSE cur \o "\n" \o Head(ls))

Paragraphs(s) == ParagraphsOf(Lines(s), "")

\* The paragraph without the white space around it.
StripAround(para) ==
    LET first == CHOOSE i \in 1..Len(para) :
                     /\ CharAt(para, i) \notin WhiteSpace
                     /\ \A k \in 1..(i - 1) : CharAt(para, k) \in WhiteSpace
        last  == CHOOSE j \in 1..Len(para) :
                     /\ CharAt(para, j) \notin WhiteSpace
                     /\ \A k \in (j + 1)..Len(para) : CharAt(para, k) \in WhiteSpace
    IN SubSeq(para, first, last)

\* C9: the number of blocks kept equals the number of paragraphs delimited by
\* blank lines in the input, and the kept blocks are those paragraphs, in
\* their order in the input.
C9_BlocksAreParagraphs ==
    stage = 1 =>
        LET kept  == output[1]
            paras == Paragraphs(input)
        IN /\ Len(kept) = Len(paras)
           /\ \A i \in 1..Len(kept) : kept[i] = StripAround(paras[i])

\* C9 witness: two paragraphs around a line of white space gave two blocks.
C9_Witness ==
    /\ stage = 1
    /\ input = "a\n \nb"
    /\ output[1] = <<"a", "b">>


(***************************************************************************)
(* GET /api/wikipedia-daily-events.                                        *)
(***************************************************************************)
MaxFeedWeight == 5   \* entries of the feed plus the tokens of their contents
MaxEntries    == 2   \* entries of the feed

\* Contents are made of these tokens: text, a line break, a tag.
FeedTokens == {"a", "\n", "<i>"}

\* How an entry identifies itself: guid, else id, else neither.
EntryIdentities ==
    { [guid |-> Some("g"), id |-> None], [guid |-> Some("h"), id |-> None],
      [guid |-> None, id |-> Some("i")], [guid |-> None, id |-> None] }

FeedEntry(ident, content) ==
    [guid |-> ident.guid, id |-> ident.id, pubDate |-> Some("2025-05-01"), content |-> content]

\* The entries whose content is made of k tokens; an entry may also have no content.
EntriesOfSize(k) ==
    {FeedEntry(ident, Some(c)) : ident \in EntryIdentities, c \in StringsOfLen(FeedTokens, k)}
        \cup (IF k = 0 THEN {FeedEntry(ident, None) : ident \in EntryIdentities} ELSE {})

\* The feeds of at most n entries and of weight at most w.
RECURSIVE FeedsWithin(_, _)
FeedsWithin(w, n) ==
    {<<>>} \cup
    (IF n = 0 \/ w = 0 THEN {}
     ELSE UNION { {<<e>> \o f : e \in EntriesOfSize(k), f \in FeedsWithin(w - 1 - k, n - 1)} :
                  k \in 0..(w - 1) })

\* What parser.parseURL yields: it throws, or a feed within the bounds.
Feeds(w, n) == {None} \cup {Some(items) : items \in FeedsWithin(w, n)}

\* trimmedBlock.split('\n')[0] || 'Untitled Event'
TopicTitle(trimmedBlock) ==
    LET first == Lines(trimmedBlock)[1] IN
    IF first = "" THEN "Untitled Event" ELSE first

\* `${dailyEntryGuid}_event_${blockIndex}`
EventId(guid, index) == guid \o "_event_" \o ToString(index)

\* dailyEntry.guid || dailyEntry.id || `wp_day_${Date.now()}`
EntryGuid(entry, now) ==
    IF Truthy(entry.guid) THEN entry.guid[1]
    ELSE IF Truthy(entry.id) THEN entry.id[1]
    ELSE "wp_day_" \o ToString(now)

\* The summary an answered completion call leaves in llmSummary.
BlockSummary(completion) ==
    IF completion.kind = "ok" THEN Trim(completion.text) ELSE "Summary not available."

FeedInit ==
    /\ feed \in Feeds(MaxFeedWeight, MaxEntries)
    /\ fpc = "L82"
    /\ entryIdx = 0 /\ blocks = <<>> /\ blockPos = 0 /\ blockIndex = 0
    /\ dailyEntryGuid = "" /\ processedEvents = <<>>
    /\ inFlight = 0 /\ completionLog = <<>> /\ blockOutcomes = <<>>
    /\ nowTick = 0 /\ feedResponses = <<>>
    /\ SumIdle /\ FnIdle /\ ClientIdle /\ ExtraIdle

\* Variant: a feed that cannot be fetched is answered with an empty array.
FeedFetchFails_EmptyArray ==
    /\ fpc = "L82" /\ feed = None
    /\ feedResponses' = Append(feedResponses,
           [status |-> 200, message |-> None, error |-> None, events |-> Some(<<>>)])
    /\ fpc' = "done"
    /\ UNCHANGED <<feed, entryIdx, blocks, blockPos, blockIndex, dailyEntryGuid,
                   processedEvents, inFlight, completionLog, blockOutcomes, nowTick,
                   sumVars, fnVars, clientVars, extraVars>>

\* await parser.parseURL(feedUrl) throws: the catch answers 500.
FeedFetchFails ==
    /\ fpc = "L82" /\ feed = None
    /\ feedResponses' = Append(feedResponses,
           [status |-> 500,
            message |-> Some("Failed to fetch or process Wikipedia daily events"),
            error |-> Some("Status code 404"),
            events |-> None])
    /\ fpc' = "done"
    /\ UNCHANGED <<feed, entryIdx, blocks, blockPos, blockIndex, dailyEntryGuid,
                   processedEvents, inFlight, completionLog, blockOutcomes, nowTick,
                   sumVars, fnVars, clientVars, extraVars>>

\* await parser.parseURL(feedUrl) resolves: the loop over feed.items starts.
FeedFetchOk ==
    /\ fpc = "L82" /\ feed # None
    /\ entryIdx' = 1
    /\ fpc' = "L85"
    /\ UNCHANGED <<feed, blocks, blockPos, blockIndex, dailyEntryGuid, processedEvents,
                   inFlight, completionLog, blockOutcomes, nowTick, feedResponses,
                   sumVars, fnVars, clientVars, extraVars>>

\* The head of one iteration of the outer loop: the guid, the content
\* check, the strip and the split.  Date.now() is read for the fallback guid
\* only; the clock may or may not have moved since it was last read.
EnterEntry ==
    /\ fpc = "L85" /\ entryIdx <= Len(feed[1])
    /\ LET dailyEntry == feed[1][entryIdx] IN
       /\ IF ~Truthy(dailyEntry.guid) /\ ~Truthy(dailyEntry.id)
          THEN nowTick' \in {nowTick, nowTick + 1}
          ELSE UNCHANGED nowTick
       /\ dailyEntryGuid' = EntryGuid(dailyEntry, nowTick')
       /\ IF ~Truthy(dailyEntry.content)
          THEN /\ entryIdx' = entryIdx + 1
               /\ UNCHANGED <<fpc, blocks, blockPos, blockIndex>>
          ELSE /\ blocks' = SplitBlocks(StripHtml(dailyEntry.content[1]))
               /\ blockPos' = 1
               /\ blockIndex' = 0
               /\ fpc' = "L104"
               /\ UNCHANGED entryIdx
    /\ UNCHANGED <<feed, processedEvents, inFlight, completionLog, blockOutcomes, feedResponses,
                   sumVars, fnVars, clientVars, extraVars>>

\* Variant: a skipped block takes an index too.
SkipEmptyBlock_CountsIndex ==
    /\ fpc = "L104" /\ blockPos <= Len(blocks)
    /\ Trim(blocks[blockPos]) = ""
    /\ blockPos' = blockPos + 1
    /\ blockIndex' = blockIndex + 1
    /\ UNCHANGED <<feed, fpc, entryIdx, blocks, dailyEntryGuid, processedEvents,
                   inFlight, completionLog, blockOutcomes, nowTick, feedResponses,
                   sumVars, fnVars, clientVars, extraVars>>

\* if (!trimmedBlock) continue
SkipEmptyBlock ==
    /\ fpc = "L104" /\ blockPos <= Len(blocks)
    /\ Trim(blocks[blockPos]) = ""
    /\ blockPos' = blockPos + 1
    /\ UNCHANGED <<feed, fpc, entryIdx, blocks, blockIndex, dailyEntryGuid, processedEvents,
                   inFlight, completionLog, blockOutcomes, nowTick, feedResponses,
                   sumVars, fnVars, clientVars, extraVars>>

\* Variant: the call is made but not awaited; the loop goes on to the next block.
IssueBlockCompletion_NoAwait ==
    /\ fpc = "L104" /\ blockPos <= Len(blocks)
    /\ Trim(blocks[blockPos]) # ""
    /\ completionLog' = Append(completionLog,
           [entry |-> entryIdx, block |-> blockPos, id |-> EventId(dailyEntryGuid, blockIndex)])
    /\ blockIndex' = blockIndex + 1
    /\ inFlight' = inFlight + 1
    /\ blockPos' = blockPos + 1
    /\ UNCHANGED <<feed, fpc, entryIdx, blocks, dailyEntryGuid, processedEvents,
                   blockOutcomes, nowTick, feedResponses, sumVars, fnVars, clientVars, extraVars>>

\* A block that is not empty: its id takes the next index, and the completion
\* call is made and awaited.
IssueBlockCompletion ==
    /\ fpc = "L104" /\ blockPos <= Len(blocks)
    /\ Trim(blocks[blockPos]) # ""
    /\ completionLog' = Append(completionLog,
           [entry |-> entryIdx, block |-> blockPos, id |-> EventId(dailyEntryGuid, blockIndex)])
    /\ blockIndex' = blockIndex + 1
    /\ inFlight' = inFlight + 1
    /\ fpc' = "W125"
    /\ UNCHANGED <<feed, entryIdx, blocks, blockPos, dailyEntryGuid, processedEvents,
                   blockOutcomes, nowTick, feedResponses, sumVars, fnVars, clientVars, extraVars>>

\* Variant: without the inner try/catch a failed call reaches the outer catch.
BlockCompletionReturn_Rethrow ==
    /\ fpc = "W125"
    /\ \E completion \in CompletionResults :
         LET trimmedBlock == Trim(blocks[blockPos]) IN
         /\ blockOutcomes' = Append(blockOutcomes,
                [id |-> EventId(dailyEntryGuid, blockIndex - 1), ok |-> completion.kind = "ok"])
         /\ IF completion.kind = "ok"
            THEN /\ processedEvents' = Append(processedEvents,
                      [id |-> EventId(dailyEntryGuid, blockIndex - 1),
                       date |-> feed[1][entryIdx].pubDate,
                       topicTitle |-> TopicTitle(trimmedBlock),
                       llmSummary |-> Trim(completion.text),
                       originalBlockText |-> trimmedBlock])
                 /\ blockPos' = blockPos + 1
                 /\ fpc' = "L104"
                 /\ UNCHANGED feedResponses
            ELSE /\ feedResponses' = Append(feedResponses,
                      [status |-> 500,
                       message |-> Some("Failed to fetch or process Wikipedia daily events"),
                       error |-> Some(completion.text),
                       events |-> None])
                 /\ fpc' = "done"
                 /\ UNCHANGED <<processedEvents, blockPos>>
    /\ inFlight' = inFlight - 1
    /\ UNCHANGED <<feed, entryIdx, blocks, blockIndex, dailyEntryGuid, completionLog,
                   nowTick, sumVars, fnVars, clientVars, extraVars>>

\* The call settles (a failure leaves the placeholder) and the event is pushed.
BlockCompletionReturn ==
    /\ fpc = "W125"
    /\ \E completion \in CompletionResults :
         LET trimmedBlock == Trim(blocks[blockPos]) IN
         /\ processedEvents' = Append(processedEvents,
             [id |-> EventId(dailyEntryGuid, blockIndex - 1),
              date |-> feed[1][entryIdx].pubDate,
              topicTitle |-> TopicTitle(trimmedBlock),
              llmSummary |-> BlockSummary(completion),
              originalBlockText |-> trimmedBlock])
         /\ blockOutcomes' = Append(blockOutcomes,
                [id |-> EventId(dailyEntryGuid, blockIndex - 1), ok |-> completion.kind = "ok"])
    /\ inFlight' = inFlight - 1
    /\ blockPos' = blockPos + 1
    /\ fpc' = "L104"
    /\ UNCHANGED <<feed, entryIdx, blocks, blockIndex, dailyEntryGuid, completionLog,
                   nowTick, feedResponses, sumVars, fnVars, clientVars, extraVars>>

\* The inner loop is over: the next entry.
EndEntry ==
    /\ fpc = "L104" /\ blockPos > Len(blocks)
    /\ entryIdx' = entryIdx + 1
    /\ fpc' = "L85"
    /\ UNCHANGED <<feed, blocks, blockPos, blockIndex, dailyEntryGuid, processedEvents,
                   inFlight, completionLog, blockOutcomes, nowTick, feedResponses,
                   sumVars, fnVars, clientVars, extraVars>>

\* The outer loop is over: res.json(processedEvents).
FeedRespond ==
    /\ fpc = "L85" /\ entryIdx > Len(feed[1])
    /\ feedResponses' = Append(feedResponses,
           [status |-> 200, message |-> None, error |-> None,
            events |-> Some(processedEvents)])
    /\ fpc' = "done"
    /\ UNCHANGED <<feed, entryIdx, blocks, blockPos, blockIndex, dailyEntryGuid,
                   processedEvents, inFlight, completionLog, blockOutcomes, nowTick,
                   sumVars, fnVars, clientVars, extraVars>>

FeedNext ==
    \/ FeedFetchFails
    \/ FeedFetchOk
    \/ EnterEntry
    \/ SkipEmptyBlock
    \/ IssueBlockCompletion
    \/ BlockCompletionReturn
    \/ EndEntry
    \/ FeedRespond

SpecFeed == FeedInit /\ [][FeedNext]_vars


(***************************************************************************)
(* Properties of GET /api/wikipedia-daily-events.                          *)
(***************************************************************************)
FeedDone == fpc = "done"
FeedAnswered200 == FeedDone /\ feed # None /\ feedResponses[1].status = 200
ReturnedEvents == feedResponses[1].events[1]

\* The non-empty blocks of an entry's stripped content, in order.
KeptOf(entry) ==
    IF Truthy(entry.content) THEN KeptBlocks(StripHtml(entry.content[1])) ELSE <<>>

\* How many events the entries before the n-th account for.
RECURSIVE EventsBefore(_, _)
EventsBefore(items, n) ==
    IF n <= 1 THEN 0
    ELSE EventsBefore(items, n - 1) + Len(KeptOf(items[n - 1]))

\* The text of a block up to its first line break.
FirstLineOf(b) ==
    LET nl == IndexOf(b, "\n") IN IF nl = 0 THEN b ELSE SubSeq(b, 1, nl - 1)

\* C10: an entry with guid G whose stripped content has k non-empty blocks
\* yields exactly k events, with the ids G_event_0 .. G_event_(k-1) in block
\* order (an empty block takes no index), each with the first line of its
\* block as topicTitle.
C10_EventsPerEntry ==
    FeedAnswered200 =>
        LET items == feed[1] IN
        /\ Len(ReturnedEvents) = EventsBefore(items, Len(items) + 1)
        /\ \A n \in 1..Len(items) :
             Truthy(items[n].guid) =>
                 \A i \in 1..Len(KeptOf(items[n])) :
                     LET ev == ReturnedEvents[EventsBefore(items, n) + i] IN
                     /\ ev.id = items[n].guid[1] \o "_event_" \o ToString(i - 1)
                     /\ ev.topicTitle = FirstLineOf(KeptOf(items[n])[i])
                     /\ ev.originalBlockText = KeptOf(items[n])[i]

\* C10 witness: one entry with two blank-line-separated blocks gave two events.
C10_Witness ==
    /\ FeedAnswered200
    /\ feed[1] = <<FeedEntry([guid |-> Some("g"), id |-> None], Some("a\n\na"))>>
    /\ Len(ReturnedEvents) = 2
    /\ ReturnedEvents[1].id = "g_event_0" /\ ReturnedEvents[1].topicTitle = "a"
    /\ ReturnedEvents[2].id = "g_event_1" /\ ReturnedEvents[2].topicTitle = "a"

\* Every kept block of the feed, over all entries.
TotalKept == EventsBefore(feed[1], Len(feed[1]) + 1)

\* C11: when the completion call of a block fails, the event of that block is
\* still emitted, with the summary 'Summary not available.'; the blocks and
\* entries after it are still processed (every kept block has had its call and
\* has its event), and the response is a 200 with the whole array.
C11_BlockFailureIsPlaceholder ==
    /\ feed # None =>
          /\ \A r \in 1..Len(feedResponses) : feedResponses[r].status = 200
          /\ Len(blockOutcomes) = Len(processedEvents)
          /\ \A k \in 1..Len(blockOutcomes) :
                /\ processedEvents[k].id = blockOutcomes[k].id
                /\ ~blockOutcomes[k].ok =>
                      processedEvents[k].llmSummary = "Summary not available."
    /\ (FeedDone /\ feed # None) =>
          /\ Len(feedResponses) = 1
          /\ feedResponses[1].events = Some(processedEvents)
          /\ Len(blockOutcomes) = TotalKept
          /\ Len(processedEvents) = TotalKept

\* C11 witness: the call of the first block of the first entry failed, and the
\* response still holds its event and the event of the second entry.
C11_Witness ==
    /\ FeedAnswered200
    /\ Len(feed[1]) = 2
    /\ Len(ReturnedEvents) = 2
    /\ ~blockOutcomes[1].ok /\ blockOutcomes[2].ok
    /\ ReturnedEvents[1].llmSummary = "Summary not available."
    /\ ReturnedEvents[2].llmSummary = "s"
    /\ ReturnedEvents[1].id = "g_event_0" /\ ReturnedEvents[2].id = "h_event_0"

\* C12: the answer is a 500 with a body {message, error} exactly when fetching
\* or parsing the feed failed, and is otherwise a 200 with the array of
\* events; a 500 carries no event array.
C12_FeedStatus ==
    /\ \A r \in 1..Len(feedResponses) :
          LET resp == feedResponses[r] IN
          /\ resp.status \in {200, 500}
          /\ resp.status = 500 <=> feed = None
          /\ resp.status = 500 =>
                /\ IsSome(resp.message) /\ IsSome(resp.error)
                /\ resp.events = None
          /\ resp.status = 200 =>
                /\ resp.message = None /\ resp.error = None
                /\ resp.events = Some(processedEvents)
    /\ FeedDone => Len(feedResponses) = 1

\* C12 witness: the feed could not be fetched and the answer was the 500.
C12_Witness ==
    /\ FeedDone /\ feed = None
    /\ feedResponses[1].status = 500
    /\ processedEvents = <<>>

(***************************************************************************)
(* Further properties of POST /api/summarize.                              *)
(***************************************************************************)
\* The prompts of the completion calls made for a source.
PromptsOf(source) ==
    {outbound[i].arg : i \in {k \in 1..Len(outbound) :
                                 outbound[k].kind = "completion" /\ outbound[k].source = source}}

\* C13: when the request carries literal text, the text is the article
\* content (the article completion call is made on it) and the article url is
\* never fetched, even if url is present too.
C13_TextSkipsFetch ==
    (HasBody /\ Truthy(body[1].text)) =>
        /\ ~Attempted("fetch", "article")
        /\ PromptsOf("article") \subseteq {ArticlePrompt(body[1].text[1])}

\* The request names the article url and nothing else.
OnlyUrl == HasBody /\ Truthy(body[1].url) /\ ~Truthy(body[1].text) /\ ~Truthy(body[1].itemUrl)

\* C14: a request with only url set whose fetch fails is answered with a
\* failure status (500), with no articleSummary and with an error field.
C14_OnlyUrlFetchFails ==
    (Done /\ OnlyUrl /\ Failed("fetch", "article")) =>
        /\ Len(responses) = 1
        /\ TheResponse.status = 500
        /\ TheResponse.body.articleSummary = None
        /\ TheResponse.body.commentSummary = None
        /\ Truthy(TheResponse.body.error)

\* C14 witness: the request {url} has been answered after its fetch failed.
C14_Witness ==
    /\ Done
    /\ body = Some([text |-> None, url |-> Some("http://a"), itemUrl |-> None])
    /\ Failed("fetch", "article")
    /\ outbound = <<FetchCall("article", "http://a")>>
    /\ TheResponse.status = 500

\* Exactly one of the two fetches failed: that of Other(src).
OneFetchFailed(src) ==
    /\ BothUrls
    /\ Succeeded("fetch", src)
    /\ Failed("fetch", Other(src))

Populated(b, source) == Truthy(SummaryField(b, source))

\* C15 (as stated): with url and itemUrl both present and exactly one of the
\* two fetches failing, exactly one of articleSummary / commentSummary is
\* populated in the response and the status is not a failure status.
C15_OneFetchFails_Original ==
    \A src \in Sources :
        (Done /\ OneFetchFailed(src)) =>
            /\ TheResponse.status < 400
            /\ Populated(TheResponse.body, "article") # Populated(TheResponse.body, "comment")

\* C15 (amended): the same, for a request without literal text and when the
\* completion call made for the source that was fetched returns a text that
\* is not blank: the response is a 200 with that source's summary populated,
\* the other summary absent, and the error field holding the failed fetch.
C15_OneFetchFails ==
    \A src \in Sources :
        (Done /\ OneFetchFailed(src) /\ ~Truthy(body[1].text) /\ NonBlankCompletion(src)) =>
            /\ TheResponse.status = 200
            /\ Populated(TheResponse.body, src)
            /\ SummaryField(TheResponse.body, Other(src)) = None
            /\ Truthy(TheResponse.body.error)

\* C15 witness: the comment fetch failed, the article was fetched and summarized.
C15_Witness ==
    /\ Done /\ OneFetchFailed("article")
    /\ ~Truthy(body[1].text)
    /\ NonBlankCompletion("article")
    /\ TheResponse.status = 200
    /\ TheResponse.body.articleSummary = Some("s")

(***************************************************************************)
(* The mobile client's detail screen (FeedDetailScreen): its state, the    *)
(* effect that requests the summaries, and what each section renders.      *)
(***************************************************************************)
\* The items the screen may be opened on.  articleUrl is feedItem.links?.[0]?.url.
FeedItems ==
    [sourceType : {"wikipedia", "hackernews"},
     description : {None, Some(""), Some("d")},
     commentLink : {None, Some(""), Some("http://c")},
     articleUrl : {None, Some(""), Some("http://a")}]

\* The JSON body of a 2xx answer, as the screen reads it.
SummaryData ==
    [articleSummary : {None, Some(""), Some("s")},
     commentSummary : {None, Some(""), Some("c")},
     error : {None, Some("e")}]

\* The body of a non-2xx answer; a body that is not JSON reads as
\* { message: 'Failed to parse error response' }.
ErrorData ==
    {[message |-> None, error |-> Some("e")],
     [message |-> Some("m"), error |-> Some("Internal Server Error")],
     [message |-> None, error |-> None],
     [message |-> Some("Failed to parse error response"), error |-> None]}

ErrorStatuses == {400, 500}

\* The messages of the errors fetch() or response.json() may reject with.
ThrownMessages == {"Network request failed", ""}

\* const commentUrl = feedItem.commentLink
CommentUrl == feedItem.commentLink
\* !!articleUrl && feedItem.sourceType !== 'wikipedia'
ShouldFetchArticleSummary == Truthy(feedItem.articleUrl) /\ feedItem.sourceType # "wikipedia"
\* shouldFetchArticleSummary && articleUrl, as tested after the request
ArticleRequested == ShouldFetchArticleSummary /\ Truthy(feedItem.articleUrl)

\* Variant: url is set from the first link whatever the source type.
Payload_AnySourceType ==
    [itemUrl |-> IF Truthy(CommentUrl) THEN CommentUrl ELSE None,
     url |-> IF Truthy(feedItem.articleUrl) THEN feedItem.articleUrl ELSE None]

\* const payload = {}; if (commentUrl) payload.itemUrl = ...; if (...) payload.url = ...
Payload ==
    [itemUrl |-> IF Truthy(CommentUrl) THEN CommentUrl ELSE None,
     url |-> IF ArticleRequested THEN feedItem.articleUrl ELSE None]

DetailInit ==
    /\ feedItem \in FeedItems
    /\ dpc = "mounted"
    /\ commentSummary = None /\ isCommentLoading = FALSE /\ commentError = None
    /\ articleSummary =
          IF feedItem.sourceType = "wikipedia"
          THEN (IF Truthy(feedItem.description) THEN feedItem.description
                ELSE Some("Summary loading or not available."))
          ELSE None
    /\ isArticleLoading = FALSE /\ articleError = None
    /\ request = None /\ reply = None
    /\ SumIdle /\ FnIdle /\ FeedIdle /\ ExtraIdle

\* fetchSummaries up to its first await: the resets, the early returns, the POST.
StartFetchSummaries ==
    /\ dpc = "mounted"
    /\ commentSummary' = None
    /\ articleSummary' = IF ShouldFetchArticleSummary THEN None ELSE articleSummary
    /\ IF ~Truthy(CommentUrl) /\ ~ShouldFetchArticleSummary
       THEN /\ commentError' = Some("No comment link available.")
            /\ articleError' =
                  IF ~Truthy(feedItem.articleUrl) /\ feedItem.sourceType # "wikipedia"
                  THEN Some("No article link available to summarize.") ELSE None
            /\ isCommentLoading' = FALSE /\ isArticleLoading' = FALSE
            /\ request' = None
            /\ dpc' = "returned"
       ELSE IF ~Truthy(Payload.itemUrl) /\ ~Truthy(Payload.url)
       THEN /\ commentError' = None /\ articleError' = None
            /\ isCommentLoading' = FALSE /\ isArticleLoading' = FALSE
            /\ request' = None
            /\ dpc' = "returned"
       ELSE /\ commentError' = None /\ articleError' = None
            /\ isCommentLoading' = Truthy(CommentUrl)
            /\ isArticleLoading' = ShouldFetchArticleSummary
            /\ request' = Some(Payload)
            /\ dpc' = "awaiting"
    /\ UNCHANGED <<feedItem, reply, sumVars, fnVars, feedVars, extraVars>>

\* Variant: the field is tested for presence, not for truthiness.
CommentAfter_PresenceCheck(data) ==
    IF IsSome(data.commentSummary)
    THEN [summary |-> data.commentSummary, error |-> commentError]
    ELSE IF Truthy(CommentUrl)
    THEN [summary |-> commentSummary,
          error |-> Some("Could not generate comment summary from backend.")]
    ELSE [summary |-> commentSummary, error |-> commentError]

\* if (data.commentSummary) setCommentSummary(...) else if (commentUrl) setCommentError(...)
CommentAfter(data) ==
    IF Truthy(data.commentSummary)
    THEN [summary |-> data.commentSummary, error |-> commentError]
    ELSE IF Truthy(CommentUrl)
    THEN [summary |-> commentSummary,
          error |-> Some("Could not generate comment summary from backend.")]
    ELSE [summary |-> commentSummary, error |-> commentError]

\* if (data.articleSummary) setArticleSummary(...) else if (...) setArticleError(...)
ArticleAfter(data) ==
    IF Truthy(data.articleSummary)
    THEN [summary |-> data.articleSummary, error |-> articleError]
    ELSE IF ArticleRequested
    THEN [summary |-> articleSummary,
          error |-> Some("Could not generate article summary from backend.")]
    ELSE [summary |-> articleSummary, error |-> articleError]

\* The request is answered 2xx with a JSON body; then the finally block.
ReplyOk ==
    /\ dpc = "awaiting"
    /\ \E data \in SummaryData :
         /\ commentSummary' = CommentAfter(data).summary
         /\ commentError' = CommentAfter(data).error
         /\ articleSummary' = ArticleAfter(data).summary
         /\ articleError' = ArticleAfter(data).error
         /\ reply' = Some([kind |-> "ok", status |-> 200, data |-> data])
    /\ isCommentLoading' = FALSE /\ isArticleLoading' = FALSE
    /\ dpc' = "settled"
    /\ UNCHANGED <<feedItem, request, sumVars, fnVars, feedVars, extraVars>>

\* errorData.message || errorData.error || 'Unknown backend error'
BackendMessage(errorData) ==
    IF Truthy(errorData.message) THEN errorData.message[1]
    ELSE IF Truthy(errorData.error) THEN errorData.error[1]
    ELSE "Unknown backend error"

\* Variant: the loading flags are cleared on the success path only.
Caught_NoFinally(message) ==
    LET errorMessage == IF message # "" THEN message
                        ELSE "Failed to fetch summaries. Is the backend server running?"
    IN /\ commentError' = IF Truthy(CommentUrl) THEN Some(errorMessage) ELSE commentError
       /\ articleError' = IF ArticleRequested THEN Some(errorMessage) ELSE articleError
       /\ UNCHANGED <<commentSummary, articleSummary, isCommentLoading, isArticleLoading>>
       /\ dpc' = "settled"

\* Variant: the catch block sets the message on both sections.
Caught_BothSections(message) ==
    LET errorMessage == IF message # "" THEN message
                        ELSE "Failed to fetch summaries. Is the backend server running?"
    IN /\ commentError' = Some(errorMessage)
       /\ articleError' = Some(errorMessage)
       /\ UNCHANGED <<commentSummary, articleSummary>>
       /\ isCommentLoading' = FALSE /\ isArticleLoading' = FALSE
       /\ dpc' = "settled"

\* The catch block: the message goes to every section that was requested.
Caught(message) ==
    LET errorMessage == IF message # "" THEN message
                        ELSE "Failed to fetch summaries. Is the backend server running?"
    IN /\ commentError' = IF Truthy(CommentUrl) THEN Some(errorMessage) ELSE commentError
       /\ articleError' = IF ArticleRequested THEN Some(errorMessage) ELSE articleError
       /\ UNCHANGED <<commentSummary, articleSummary>>
       /\ isCommentLoading' = FALSE /\ isArticleLoading' = FALSE
       /\ dpc' = "settled"

\* The request is answered with a status that is not 2xx.
ReplyNotOk ==
    /\ dpc = "awaiting"
    /\ \E status \in ErrorStatuses, errorData \in ErrorData :
         /\ Caught("HTTP error! status: " \o ToString(status) \o ", Message: "
                       \o BackendMessage(errorData))
         /\ reply' = Some([kind |-> "notok", status |-> status, data |-> errorData])
    /\ UNCHANGED <<feedItem, request, sumVars, fnVars, feedVars, extraVars>>

\* fetch() rejects, or the body of a 2xx answer cannot be read.
ReplyThrows ==
    /\ dpc = "awaiting"
    /\ \E message \in ThrownMessages :
         /\ Caught(message)
         /\ reply' = Some([kind |-> "throw", status |-> 0, data |-> message])
    /\ UNCHANGED <<feedItem, request, sumVars, fnVars, feedVars, extraVars>>

DetailNext ==
    \/ StartFetchSummaries
    \/ ReplyOk
    \/ ReplyNotOk
    \/ ReplyThrows

SpecDetail == DetailInit /\ [][DetailNext]_vars

\* The effect runs once the screen is mounted, and the request settles.
SpecDetailFair == SpecDetail /\ WF_vars(DetailNext)

\* What the article section renders.
ArticleSection ==
    LET wiki == feedItem.sourceType = "wikipedia" IN
    (IF isArticleLoading /\ ~wiki THEN {"spinner"} ELSE {})
        \cup (IF Truthy(articleError) /\ ~wiki THEN {"error"} ELSE {})
        \cup (IF Truthy(articleSummary) THEN {"summary"} ELSE {})
        \cup (IF ~Truthy(articleSummary) /\ ~isArticleLoading /\ ~wiki /\ ~Truthy(articleError)
              THEN {"placeholder"} ELSE {})
        \cup (IF ~Truthy(articleSummary) /\ ~isArticleLoading /\ wiki
              THEN {"placeholder"} ELSE {})

\* What the comment section renders (without a comment link: one line of text).
CommentSection ==
    IF Truthy(feedItem.commentLink)
    THEN (IF isCommentLoading THEN {"spinner"} ELSE {})
             \cup (IF Truthy(commentError) THEN {"error"} ELSE {})
             \cup (IF Truthy(commentSummary) THEN {"summary"} ELSE {})
             \cup (IF ~isCommentLoading /\ ~Truthy(commentError) /\ ~Truthy(commentSummary)
                   THEN {"placeholder"} ELSE {})
    ELSE {"placeholder"}

(***************************************************************************)
(* Properties of the detail screen.                                        *)
(***************************************************************************)
Settled == dpc = "settled"
AnsweredOk == Settled /\ reply[1].kind = "ok"
CommentState == <<commentSummary, commentError>>
ArticleState == <<articleSummary, articleError>>
AsPair(after) == <<after.summary, after.error>>

\* The answer read by the screen, with one summary field taken out.
WithoutComment(data) == [data EXCEPT !.commentSummary = None]
WithoutArticle(data) == [data EXCEPT !.articleSummary = None]

\* C16 (as stated): a summary field that is present but empty counts as 'not
\* generated' (no summary is held for the section), and the screen's state
\* differs from the state an answer without the field leaves.
C16_EmptyIsNotGenerated_Original ==
    AnsweredOk =>
        LET data == reply[1].data IN
        /\ (data.commentSummary = Some("") /\ Truthy(CommentUrl)) =>
              /\ ~Truthy(commentSummary)
              /\ CommentState # AsPair(CommentAfter(WithoutComment(data)))
        /\ (data.articleSummary = Some("") /\ ArticleRequested) =>
              /\ ~Truthy(articleSummary)
              /\ ArticleState # AsPair(ArticleAfter(WithoutArticle(data)))

\* C16 (amended): a summary field that is present but empty counts as 'not
\* generated': the section that was requested holds no summary and the error
\* 'Could not generate ... summary from backend.', and the screen's state is
\* the state an answer without the field leaves.
C16_EmptyIsNotGenerated ==
    AnsweredOk =>
        LET data == reply[1].data IN
        /\ data.commentSummary = Some("") =>
              /\ Truthy(CommentUrl) =>
                    /\ commentSummary = None
                    /\ commentError = Some("Could not generate comment summary from backend.")
              /\ CommentState = AsPair(CommentAfter(WithoutComment(data)))
        /\ data.articleSummary = Some("") =>
              /\ ArticleRequested =>
                    /\ articleSummary = None
                    /\ articleError = Some("Could not generate article summary from backend.")
              /\ ArticleState = AsPair(ArticleAfter(WithoutArticle(data)))

\* C16 witness: a 200 whose commentSummary is the empty string has been read
\* for an item that has a comment link.
C16_Witness ==
    /\ AnsweredOk
    /\ reply[1].data.commentSummary = Some("")
    /\ reply[1].data.articleSummary = Some("s")
    /\ Truthy(CommentUrl)
    /\ commentError = Some("Could not generate comment summary from backend.")

\* Once fetchSummaries is over neither flag is set, no section shows the
\* loading indicator, each section shows a summary, an error or a placeholder,
\* and a summary the answer carries for a requested section is shown whatever
\* happened to the other section; the details of a Wikipedia item stay shown.
C17_AfterSettling ==
    dpc \in {"settled", "returned"} =>
        /\ ~isCommentLoading /\ ~isArticleLoading
        /\ "spinner" \notin ArticleSection \cup CommentSection
        /\ ArticleSection \cap {"summary", "error", "placeholder"} # {}
        /\ CommentSection \cap {"summary", "error", "placeholder"} # {}
        /\ AnsweredOk =>
              LET data == reply[1].data IN
              /\ (Truthy(CommentUrl) /\ Truthy(data.commentSummary)) =>
                    /\ commentSummary = data.commentSummary
                    /\ CommentSection = {"summary"}
              /\ (ArticleRequested /\ Truthy(data.articleSummary)) =>
                    /\ articleSummary = data.articleSummary
                    /\ ArticleSection = {"summary"}
        /\ feedItem.sourceType = "wikipedia" => ArticleSection = {"summary"}

Loading == isCommentLoading \/ isArticleLoading

\* C17: each section's loading indicator is eventually replaced: whenever a
\* section is loading, later none is; and once the request has settled (2xx,
\* non-2xx or a thrown error) both flags are false and each section shows a
\* summary, an inline error or a placeholder, a failure of one section
\* leaving the other section's summary shown.
C17_LoadingIsReplaced ==
    /\ []C17_AfterSettling
    /\ (Loading ~> ~Loading)
    /\ <>(dpc \in {"settled", "returned"})

\* C17 witness: the answer carried the comment summary only; the comment
\* section shows it and the article section shows its error.
C17_Witness ==
    /\ AnsweredOk
    /\ request = Some([itemUrl |-> Some("http://c"), url |-> Some("http://a")])
    /\ reply[1].data.commentSummary = Some("c")
    /\ reply[1].data.articleSummary = None
    /\ CommentSection = {"summary"}
    /\ ArticleSection = {"error"}
    /\ ~Loading

(***************************************************************************)
(* The identifiers of the items of one feed fetch, from the backend's      *)
(* events to the keys of the list that shows them.                         *)
(***************************************************************************)
\* FeedListScreen: the FeedItem made of a ProcessedWikipediaEvent (id: event.id).
WikipediaItem(event) ==
    [id |-> Some(event.id), title |-> event.topicTitle, sourceType |-> "wikipedia"]

\* FeedList: keyExtractor(item, index), index counted from 0.
KeyExtractor(item, index) ==
    IF IsSome(item.id) /\ Len(item.id[1]) > 0 THEN item.id[1]
    ELSE "index-" \o ToString(index)

\* The keys of the list rendered for the events of a response.
ListKeys(events) ==
    [i \in 1..Len(events) |-> KeyExtractor(WikipediaItem(events[i]), i - 1)]

\* C18: the ids of the events of one response are pairwise distinct (entries
\* without guid and id, which get the generated guid, included), and so are
\* the keys of the list, a key being index-<i> only for an item without id.
C18_IdsUnique ==
    FeedAnswered200 =>
        LET events == ReturnedEvents
            keys   == ListKeys(events)
        IN /\ \A i, j \in 1..Len(events) :
                i # j => /\ events[i].id # events[j].id
                         /\ keys[i] # keys[j]
           /\ \A i \in 1..Len(events) :
                keys[i] = "index-" \o ToString(i - 1) => events[i].id = ""

(***************************************************************************)
(* Properties of POST /api/summarize: exceptions and retries.              *)
(***************************************************************************)
\* C19: an exception thrown in the handler outside the per-source try blocks
\* (here: req.body is undefined) reaches the fallback error handler, which
\* sends one response, a 500 whose body holds the error's message; nothing
\* else is sent and no step is run again.
C19_UncaughtGoesToFallback ==
    /\ Len(responses) <= 1
    /\ (body = None /\ responses # <<>>) =>
          /\ pc = "done"
          /\ responses = <<Response(500, JsonBody(Some("Internal Server Error"),
                                                  Some(DestructureMessage), None, None))>>
          /\ outbound = <<>>
    /\ \A r \in 1..Len(responses) :
          IsSome(responses[r].body.message) => body = None

\* C19 witness: the request without a body has been answered by the fallback handler.
C19_Witness ==
    /\ body = None /\ pc = "done"
    /\ Len(responses) = 1
    /\ responses[1].status = 500
    /\ responses[1].body.message = Some(DestructureMessage)

\* The outbound calls of one kind made for one source.
CallsOf(kind, source) ==
    {i \in 1..Len(outbound) : outbound[i].kind = kind /\ outbound[i].source = source}

\* C20: within one request nothing is tried twice: url and itemUrl are each
\* fetched at most once and each content source gets at most one completion
\* call, whichever step fails.
C20_NoRetry ==
    /\ \A source \in Sources :
          /\ Cardinality(CallsOf("fetch", source)) <= 1
          /\ Cardinality(CallsOf("completion", source)) <= 1
    /\ \A i \in 1..Len(outbound) :
          outbound[i].kind = "fetch" =>
              outbound[i].arg = (IF outbound[i].source = "article"
                                 THEN body[1].url[1] ELSE body[1].itemUrl[1])
    /\ Len(settled) <= Len(outbound)
    /\ Len(outbound) <= 4

\* C20 witness: the article fetch and the comment completion both failed, and
\* the request ended after three calls.
C20_Witness ==
    /\ Done /\ BothUrls /\ ~Truthy(body[1].text)
    /\ Failed("fetch", "article")
    /\ Failed("completion", "comment")
    /\ Len(outbound) = 3
    /\ TheResponse.status = 500

(***************************************************************************)
(* Two POST /api/summarize requests served by the same process.  Each call *)
(* of summarizeHandler has its own locals (declared inside the handler);   *)
(* the calls interleave at their awaits.  The steps of one call are those  *)
(* of the handler above, written over a record of its locals.              *)
(***************************************************************************)
Requests == {1, 2}

\* The bodies and the outcomes the two requests are drawn from.
TwoBodies ==
    {None} \cup {Some([text |-> t, url |-> u, itemUrl |-> i]) :
                     t \in {None, Some("t")}, u \in {None, Some("http://a")},
                     i \in {None, Some("http://c")}}
TwoFetchResults == {None, Some("p")}
TwoCompletionResults ==
    {[kind |-> "ok", text |-> " s "], [kind |-> "nochoices", text |-> ""],
     [kind |-> "throw", text |-> "401"]}

\* The locals of a call that has just been entered.
Entered(b) ==
    [body |-> b, pc |-> "L69",
     articleContentToSummarize |-> None, commentContentToSummarize |-> None,
     responsePayload |-> EmptyPayload,
     outbound |-> <<>>, settled |-> <<>>, responses |-> <<>>]

\* What a completion call that settled as c leaves in the payload.
AfterCompletion(payload, source, c) ==
    LET label == IF source = "article" THEN "OpenAI error for article: "
                 ELSE "OpenAI error for comments: "
    IN CASE c.kind = "ok" ->
              IF source = "article"
              THEN [payload EXCEPT !.articleSummary = Some(Trim(c.text))]
              ELSE [payload EXCEPT !.commentSummary = Some(Trim(c.text))]
         [] c.kind = "nochoices" -> AppendError(payload, label \o NoChoicesMessage)
         [] c.kind = "throw" -> AppendError(payload, label \o c.text)

\* The states one step of the handler leads to from the locals st.
HandlerSteps(st, fetchResults, completionResults) ==
    CASE st.pc = "L69" ->
           IF st.body = None
           THEN {[st EXCEPT !.responses = Append(@, FallbackResponse(DestructureMessage)),
                            !.pc = "done"]}
           ELSE {[st EXCEPT !.articleContentToSummarize =
                                IF Truthy(st.body[1].text) THEN st.body[1].text ELSE None,
                            !.pc = "L81"]}
      [] st.pc = "L81" ->
           IF Truthy(st.body[1].url)
           THEN {[st EXCEPT !.outbound = Append(@, FetchCall("article", st.body[1].url[1])),
                            !.pc = "W83"]}
           ELSE {[st EXCEPT !.pc = "L91"]}
      [] st.pc = "W83" ->
           {[st EXCEPT !.articleContentToSummarize = IF Truthy(r) THEN r ELSE @,
                       !.responsePayload =
                           IF Truthy(r) THEN @
                           ELSE AppendError(@, "Failed to fetch/parse article from "
                                                   \o st.body[1].url[1]),
                       !.settled = Append(@, FetchSettled("article", r)),
                       !.pc = "L91"] : r \in fetchResults}
      [] st.pc = "L91" ->
           IF Truthy(st.body[1].itemUrl)
           THEN {[st EXCEPT !.outbound = Append(@, FetchCall("comment", st.body[1].itemUrl[1])),
                            !.pc = "W93"]}
           ELSE {[st EXCEPT !.pc = "L101"]}
      [] st.pc = "W93" ->
           {[st EXCEPT !.commentContentToSummarize = IF Truthy(r) THEN r ELSE @,
                       !.responsePayload =
                           IF Truthy(r) THEN @
                           ELSE AppendError(@, "Failed to fetch/parse comments from "
                                                   \o st.body[1].itemUrl[1]),
                       !.settled = Append(@, FetchSettled("comment", r)),
                       !.pc = "L101"] : r \in fetchResults}
      [] st.pc = "L101" ->
           IF Truthy(st.articleContentToSummarize)
           THEN LET content == TruncateArticle(st.articleContentToSummarize[1]) IN
                {[st EXCEPT !.articleContentToSummarize = Some(content),
                            !.outbound = Append(@, CompletionCall("article",
                                                       ArticlePrompt(content))),
                            !.pc = "W110"]}
           ELSE {[st EXCEPT !.pc = "L124"]}
      [] st.pc = "W110" ->
           {[st EXCEPT !.responsePayload = AfterCompletion(@, "article", c),
                       !.settled = Append(@, CompletionSettled("article", c)),
                       !.pc = "L124"] : c \in completionResults}
      [] st.pc = "L124" ->
           IF Truthy(st.commentContentToSummarize)
           THEN LET content == TruncateComment(st.commentContentToSummarize[1]) IN
                {[st EXCEPT !.commentContentToSummarize = Some(content),
                            !.outbound = Append(@, CompletionCall("comment",
                                                       CommentPrompt(content))),
                            !.pc = "W133"]}
           ELSE {[st EXCEPT !.pc = "L147"]}
      [] st.pc = "W133" ->
           {[st EXCEPT !.responsePayload = AfterCompletion(@, "comment", c),
                       !.settled = Append(@, CompletionSettled("comment", c)),
                       !.pc = "L147"] : c \in completionResults}
      [] st.pc = "L147" ->
           {[st EXCEPT !.responses = Append(@, FinalResponse(st.responsePayload, st.body[1])),
                       !.pc = "done"]}
      [] OTHER -> {}

\* Variant: responsePayload is one object of the module, shared by the calls.
Scope_SharedPayload(rs, r) ==
    [q \in DOMAIN rs |-> [rs[q] EXCEPT !.responsePayload = rs[r].responsePayload]]

\* Where the locals live: inside the handler, so a step of the call r
\* changes the locals of r only.
Scope(rs, r) == rs

TwoInit ==
    /\ reqs \in [Requests -> {Entered(b) : b \in TwoBodies}]
    /\ pages = <<>>
    /\ SumIdle /\ FnIdle /\ FeedIdle /\ ClientIdle /\ SendIdle /\ ListIdle

\* One call runs up to its next await (or to its end).
HandlerStep ==
    /\ \E r \in Requests :
         \E next \in HandlerSteps(reqs[r], TwoFetchResults, TwoCompletionResults) :
             reqs' = Scope([reqs EXCEPT ![r] = next], r)
    /\ UNCHANGED <<pages, sumVars, fnVars, feedVars, clientVars, sendVars, listVars>>

TwoNext == HandlerStep

SpecTwo == TwoInit /\ [][TwoNext]_vars

\* The locals of the single request of Spec, as a record.
Current ==
    [body |-> body, pc |-> pc,
     articleContentToSummarize |-> articleContentToSummarize,
     commentContentToSummarize |-> commentContentToSummarize,
     responsePayload |-> responsePayload,
     outbound |-> outbound, settled |-> settled, responses |-> responses]

\* Under Spec: every step of the handler is one of HandlerSteps.
StepsAgree ==
    [][Current' \in HandlerSteps(Current, FetchResults, CompletionResultsFor(apiKey))]_vars

\* The payload that the outcomes outs of a request's own outbound calls,
\* taken in the order they settled, leave behind when they start from payload.
RECURSIVE Replay(_, _, _)
Replay(payload, b, outs) ==
    IF outs = <<>> THEN payload
    ELSE LET o == Head(outs)
             after ==
                 CASE o.kind = "fetch" /\ o.ok -> payload
                   [] o.kind = "fetch" /\ ~o.ok ->
                        AppendError(payload,
                            IF o.source = "article"
                            THEN "Failed to fetch/parse article from " \o b.url[1]
                            ELSE "Failed to fetch/parse comments from " \o b.itemUrl[1])
                   [] o.kind = "completion" /\ o.ok ->
                        IF o.source = "article"
                        THEN [payload EXCEPT !.articleSummary = Some(Trim(o.value))]
                        ELSE [payload EXCEPT !.commentSummary = Some(Trim(o.value))]
                   [] o.kind = "completion" /\ ~o.ok ->
                        AppendError(payload,
                            (IF o.source = "article" THEN "OpenAI error for article: "
                             ELSE "OpenAI error for comments: ")
                                \o (IF o.value = "" THEN NoChoicesMessage ELSE o.value))
         IN Replay(after, b, Tail(outs))

\* The response a request with the body b and the outcomes outs is owed.
OwnResponse(b, outs) ==
    IF b = None THEN FallbackResponse(DestructureMessage)
    ELSE FinalResponse(Replay(EmptyPayload, b[1], outs), b[1])

\* C21: when two summarize requests interleave at their awaits, the response
\* of each one is determined by its own body and by the outcomes of its own
\* outbound calls, whatever the other request did in between.
C21_RequestsIndependent ==
    \A r \in Requests :
        /\ Len(reqs[r].responses) <= 1
        /\ reqs[r].pc = "done" =>
               reqs[r].responses = <<OwnResponse(reqs[r].body, reqs[r].settled)>>

\* Both requests are answered, one with an error of its own and the other
\* with summaries only, each after two or more outbound calls of its own.
C21_Witness ==
    /\ \A r \in Requests : reqs[r].pc = "done"
    /\ reqs[1].responses[1].status = 500
    /\ reqs[2].responses[1].status = 200
    /\ reqs[2].responses[1].body.error = None
    /\ Len(reqs[1].settled) >= 2 /\ Len(reqs[2].settled) >= 2

(***************************************************************************)
(* Order of the two pipelines inside one request.                          *)
(***************************************************************************)
\* The handler is suspended at an await of the source's pipeline.
AwaitingFor(source) ==
    IF source = "article" THEN pc \in {"W83", "W110"} ELSE pc \in {"W93", "W133"}

\* The pipeline of the source has been launched: its first call is issued.
Launched(source) == Attempted("fetch", source)

\* C22: in a request with both url and itemUrl the two pipelines are launched
\* together and awaited jointly: while the handler waits for a call of one
\* pipeline, the other pipeline has been launched as well (so the comment
\* fetch can be under way before the article fetch has completed).
C22_LaunchedConcurrently ==
    (HasBody /\ BothUrls) =>
        /\ AwaitingFor("article") => Launched("comment")
        /\ AwaitingFor("comment") => Launched("article")

(***************************************************************************)
(* Order of the completion calls of GET /api/wikipedia-daily-events.       *)
(***************************************************************************)
\* The block logged at i comes before the block logged at j in the feed.
LoggedBefore(i, j) ==
    \/ completionLog[i].entry < completionLog[j].entry
    \/ /\ completionLog[i].entry = completionLog[j].entry
       /\ completionLog[i].block < completionLog[j].block

\* C23: the blocks of one feed request are summarized one at a time: at most
\* one completion call is in flight, the calls are made in feed-entry order
\* and then block order, and the events are pushed (and returned) in the
\* order of their calls.
C23_OneBlockAtATime ==
    /\ inFlight \in {0, 1}
    /\ \A i, j \in 1..Len(completionLog) : i < j => LoggedBefore(i, j)
    /\ Len(processedEvents) = Len(completionLog) - inFlight
    /\ \A i \in 1..Len(processedEvents) :
         /\ processedEvents[i].id = completionLog[i].id
         /\ processedEvents[i].originalBlockText =
                Trim(SplitBlocks(StripHtml(
                    feed[1][completionLog[i].entry].content[1]))[completionLog[i].block])
    /\ FeedAnswered200 => ReturnedEvents = processedEvents

\* Two entries with a block each were summarized, the second entry's call
\* made after the first one's had been answered.
C23_Witness ==
    /\ FeedAnswered200
    /\ Len(feed[1]) = 2
    /\ Len(completionLog) = 2
    /\ completionLog[1].entry = 1 /\ completionLog[2].entry = 2
    /\ Len(ReturnedEvents) = 2

(***************************************************************************)
(* fetchAndParseURL, from what axios.get meets to what the handler gets.   *)
(* One request is followed (reqs has the single call 1) and every page     *)
(* fetch is logged in pages together with the content source it was for.   *)
(***************************************************************************)
\* The messages of the errors axios.get rejects with: the timeout, an
\* unreachable host, a non-success status.
TransportErrors ==
    {"timeout of 10000ms exceeded", "getaddrinfo ENOTFOUND a",
     "Request failed with status code 404"}

ContentTypes == {"text/html", "application/pdf"}

\* What axios.get meets: a rejection, or a response with its content-type and
\* with the text Readability finds in its body parsed as HTML (none, or some:
\* for a body that is not HTML either can happen).
PageOutcomes ==
    {[kind |-> "throw", message |-> m, contentType |-> "", readable |-> None] :
         m \in TransportErrors}
        \cup {[kind |-> "response", message |-> "", contentType |-> ct, readable |-> t] :
                  ct \in ContentTypes, t \in {None, Some("p")}}

\* fetchAndParseURL: the catch and a parse without text both give null; the
\* content-type of the response is not looked at.
FetchAndParseURL(page) ==
    IF page.kind = "throw" THEN None
    ELSE IF Truthy(page.readable) THEN page.readable
    ELSE None

PageBodies ==
    {Some([text |-> t, url |-> u, itemUrl |-> i]) :
         t \in {None, Some("t")}, u \in {None, Some("http://a")},
         i \in {None, Some("http://c")}}

PageInit ==
    /\ reqs \in [{1} -> {Entered(b) : b \in PageBodies}]
    /\ pages = <<>>
    /\ SumIdle /\ FnIdle /\ FeedIdle /\ ClientIdle /\ SendIdle /\ ListIdle

\* A page fetch of the request settles.
PageFetchSettles ==
    /\ reqs[1].pc \in {"W83", "W93"}
    /\ \E page \in PageOutcomes :
         \E next \in HandlerSteps(reqs[1], {FetchAndParseURL(page)}, TwoCompletionResults) :
             /\ reqs' = [reqs EXCEPT ![1] = next]
             /\ pages' = Append(pages,
                    [source |-> IF reqs[1].pc = "W83" THEN "article" ELSE "comment",
                     page |-> page])
    /\ UNCHANGED <<sumVars, fnVars, feedVars, clientVars, sendVars, listVars>>

\* Any other step of the request.
PageHandlerStep ==
    /\ reqs[1].pc \notin {"W83", "W93"}
    /\ \E next \in HandlerSteps(reqs[1], {}, TwoCompletionResults) :
           reqs' = [reqs EXCEPT ![1] = next]
    /\ UNCHANGED <<pages, sumVars, fnVars, feedVars, clientVars, sendVars, listVars>>

PageNext == PageFetchSettles \/ PageHandlerStep

SpecPage == PageInit /\ [][PageNext]_vars

\* sub occurs in s.
RECURSIVE Contains(_, _)
Contains(s, sub) ==
    IF Len(s) < Len(sub) THEN FALSE
    ELSE IF SubSeq(s, 1, Len(sub)) = sub THEN TRUE
    ELSE Contains(Tail(s), sub)

PageDone == reqs[1].pc = "done"
PageResponse == reqs[1].responses[1]

\* C24: when a page fetch fails in transport (timeout, unreachable host,
\* non-success status), the error of the response carries the message of the
\* transport error.
C24_ErrorCarriesTransportMessage ==
    PageDone =>
        \A i \in 1..Len(pages) :
            pages[i].page.kind = "throw" =>
                /\ Truthy(PageResponse.body.error)
                /\ Contains(PageResponse.body.error[1], pages[i].page.message)

\* The response's summary field of a content source.
PageSummary(source) ==
    IF source = "article" THEN PageResponse.body.articleSummary
    ELSE PageResponse.body.commentSummary

\* The source's content can only have come from its page (not from text).
FromPageOnly(source) == source = "comment" \/ ~Truthy(reqs[1].body[1].text)

\* C25: when the page fetched for a content source has a content-type that
\* is not HTML, the source is unusable: nothing is extracted from the page
\* (the fetch counts as failed), no completion call is made for the source
\* and the response has no summary for it.
C25_NonHtmlIsUnusable ==
    \A i \in 1..Len(pages) :
        (pages[i].page.kind = "response" /\ pages[i].page.contentType # "text/html") =>
            LET source == pages[i].source IN
            /\ \A k \in 1..Len(reqs[1].settled) :
                   (reqs[1].settled[k].kind = "fetch" /\ reqs[1].settled[k].source = source)
                       => ~reqs[1].settled[k].ok
            /\ FromPageOnly(source) =>
                   /\ \A k \in 1..Len(reqs[1].outbound) :
                          ~(/\ reqs[1].outbound[k].kind = "completion"
                            /\ reqs[1].outbound[k].source = source)
                   /\ PageDone => PageSummary(source) = None

(***************************************************************************)
(* The revisions of the /api/summarize handler, for what they send.        *)
(*   "itemUrl"     the handler of comments only                            *)
(*   "single"      the handler of one summary (text, else url, else        *)
(*                 itemUrl), whose fetch helper answers for itself         *)
(*   "two-urls"    the handler of itemUrl and articleUrl                   *)
(*   "current"     the handler of text, url and itemUrl                    *)
(* A response is logged in the responses of the call when it is sent.      *)
(***************************************************************************)
Revisions == {"itemUrl", "single", "two-urls", "current"}

\* What Express's own error handler sends for an error nobody answered.
DefaultErrorResponse == Response(500, [error |-> Some("Internal Server Error")])

\* How the fetch of the comment page ends: axios.get rejects, or cheerio
\* finds this many .commtext elements.
CommentPageOutcomes ==
    {[kind |-> "throw", message |-> m, comments |-> 0] : m \in TransportErrors}
        \cup {[kind |-> "page", message |-> "", comments |-> n] : n \in {0, 1}}

\* --- the handler of comments only ---
ItemUrlBodies == {None} \cup {Some([itemUrl |-> i]) : i \in {None, Some(""), Some("http://c")}}

ItemUrlEntered(b, key) == [body |-> b, apiKey |-> key, pc |-> "L41", responses |-> <<>>]

ItemUrlSteps(st) ==
    CASE st.pc = "L41" ->
           IF st.body = None
           THEN {[st EXCEPT !.responses = Append(@, DefaultErrorResponse), !.pc = "done"]}
           ELSE IF ~Truthy(st.body[1].itemUrl)
           THEN {[st EXCEPT !.responses = Append(@, Response(400,
                                [error |-> Some("Missing itemUrl in request body")])),
                            !.pc = "done"]}
           ELSE IF ~st.apiKey
           THEN {[st EXCEPT !.responses = Append(@, Response(500,
                                [error |-> Some("OpenAI API key not configured on server")])),
                            !.pc = "done"]}
           ELSE {[st EXCEPT !.pc = "W61"]}
      [] st.pc = "W61" ->
           {IF o.kind = "throw"
            THEN [st EXCEPT !.responses = Append(@, Response(500,
                                [error |-> Some("Failed to process request"),
                                 details |-> Some(o.message)])),
                            !.pc = "done"]
            ELSE IF o.comments = 0
            THEN [st EXCEPT !.responses = Append(@, Response(200,
                                [summary |-> Some("No comments found to summarize.")])),
                            !.pc = "done"]
            ELSE [st EXCEPT !.pc = "W89"] : o \in CommentPageOutcomes}
      [] st.pc = "W89" ->
           {CASE c.kind = "ok" ->
                   [st EXCEPT !.responses = Append(@, Response(200,
                                  [summary |-> Some(Trim(c.text))])),
                              !.pc = "done"]
              [] c.kind = "nochoices" ->
                   [st EXCEPT !.responses = Append(@, Response(200,
                                  [summary |-> Some("Could not generate summary.")])),
                              !.pc = "done"]
              [] c.kind = "throw" ->
                   [st EXCEPT !.responses = Append(@, Response(500,
                                  [error |-> Some("Failed to process request"),
                                   details |-> Some(c.text)])),
                              !.pc = "done"] : c \in CompletionResults}
      [] OTHER -> {}

\* --- the handler of one summary ---
SingleEntered(b) ==
    [body |-> b, pc |-> "L192", contentToSummarize |-> None, responses |-> <<>>]

\* Variant: the handler goes on after the helper has answered.
HelperAnswered_GoesOn(st, response) ==
    [st EXCEPT !.responses = Append(@, response), !.contentToSummarize = None,
               !.pc = "L211"]

\* fetchContentFromURL failed: it has sent the 500 itself and returned null,
\* on which the handler returns.
HelperAnswered(st, response) ==
    [st EXCEPT !.responses = Append(@, response), !.contentToSummarize = None,
               !.pc = "done"]

SingleSteps(st) ==
    CASE st.pc = "L192" ->
           IF st.body = None
           THEN {[st EXCEPT !.responses = Append(@, DefaultErrorResponse), !.pc = "done"]}
           ELSE LET content == IF Truthy(st.body[1].text) THEN st.body[1].text ELSE None IN
                IF ~Truthy(content) /\ Truthy(st.body[1].url)
                THEN {[st EXCEPT !.pc = "W202"]}
                ELSE IF ~Truthy(content) /\ Truthy(st.body[1].itemUrl)
                THEN {[st EXCEPT !.pc = "W206"]}
                ELSE {[st EXCEPT !.contentToSummarize = content, !.pc = "L211"]}
      [] st.pc \in {"W202", "W206"} ->
           {IF page.kind = "throw"
            THEN HelperAnswered(st, Response(500,
                     [summary |-> Some(""),
                      error |-> Some("Failed to fetch or parse URL: " \o page.message)]))
            ELSE IF ~Truthy(page.readable)
            THEN HelperAnswered(st, Response(500,
                     [summary |-> Some(""),
                      error |-> Some("Failed to extract readable content from URL")]))
            ELSE [st EXCEPT !.contentToSummarize = page.readable, !.pc = "L211"]
              : page \in PageOutcomes}
      [] st.pc = "L211" ->
           IF ~Truthy(st.contentToSummarize)
           THEN {[st EXCEPT !.responses = Append(@, Response(400,
                                [summary |-> Some(""),
                                 error |-> Some("No content provided or found for summarization")])),
                            !.pc = "done"]}
           ELSE {[st EXCEPT !.pc = "W231"]}
      [] st.pc = "W231" ->
           {IF c.kind = "ok"
            THEN [st EXCEPT !.responses = Append(@, Response(200,
                                [summary |-> Some(Trim(c.text))])),
                            !.pc = "done"]
            ELSE [st EXCEPT !.responses = Append(@, DefaultErrorResponse), !.pc = "done"]
              : c \in CompletionResults}
      [] OTHER -> {}

\* --- the handler of itemUrl and articleUrl ---
TwoUrlsBodies ==
    {None} \cup {Some([itemUrl |-> i, articleUrl |-> a]) :
                     i \in {None, Some("http://c")}, a \in {None, Some("http://a")}}

TwoUrlsEntered(b, key) ==
    [body |-> b, apiKey |-> key, pc |-> "L375",
     commentSummary |-> None, articleSummary |-> None,
     commentError |-> None, extractedCommentsText |-> None, responses |-> <<>>]

\* getOpenAISummary: the trimmed content, or null for no choices and for any
\* error (it catches them).
GetOpenAISummary(c) == IF c.kind = "ok" THEN Some(Trim(c.text)) ELSE None

\* The closing lines: 500 when neither summary is there, else 200.
TwoUrlsRespond(st, comment) ==
    IF ~Truthy(comment) /\ ~Truthy(st.articleSummary)
    THEN [st EXCEPT !.commentSummary = comment,
                    !.responses = Append(@, Response(500,
                        [error |-> Some("Failed to generate summaries."),
                         commentError |-> IF Truthy(st.commentError) THEN st.commentError
                                          ELSE Some("Comment summary failed."),
                         articleError |-> Some("Article summary failed.")])),
                    !.pc = "done"]
    ELSE [st EXCEPT !.commentSummary = comment,
                    !.responses = Append(@, Response(200,
                        [commentSummary |-> comment, articleSummary |-> st.articleSummary])),
                    !.pc = "done"]

TwoUrlsSteps(st) ==
    CASE st.pc = "L375" ->
           IF st.body = None
           THEN {[st EXCEPT !.responses = Append(@, DefaultErrorResponse), !.pc = "done"]}
           ELSE IF ~Truthy(st.body[1].itemUrl) /\ ~Truthy(st.body[1].articleUrl)
           THEN {[st EXCEPT !.responses = Append(@, Response(400,
                                [error |-> Some("Missing both itemUrl and articleUrl")])),
                            !.pc = "done"]}
           ELSE IF ~st.apiKey
           THEN {[st EXCEPT !.responses = Append(@, Response(500,
                                [error |-> Some("OpenAI API key not configured")])),
                            !.pc = "done"]}
           ELSE IF Truthy(st.body[1].itemUrl)
           THEN {[st EXCEPT !.pc = "W402"]}
           ELSE {[st EXCEPT !.pc = "L428"]}
      [] st.pc = "W402" ->
           {IF o.kind = "throw"
            THEN [st EXCEPT !.commentError = Some(o.message), !.pc = "L428"]
            ELSE IF o.comments = 0
            THEN [st EXCEPT !.pc = "L428"]
            ELSE [st EXCEPT !.extractedCommentsText = Some("c"), !.pc = "L428"]
              : o \in CommentPageOutcomes}
      [] st.pc = "L428" ->
           IF ~Truthy(st.body[1].articleUrl)
           THEN {[st EXCEPT !.pc = "L437"]}
           ELSE {[st EXCEPT !.pc = "W329"]}
      [] st.pc = "W329" ->
           {IF \/ page.kind = "throw"
               \/ page.contentType # "text/html"
               \/ ~Truthy(page.readable)
            THEN [st EXCEPT !.pc = "L437"]
            ELSE [st EXCEPT !.pc = "W363"] : page \in PageOutcomes}
      [] st.pc = "W363" ->
           {[st EXCEPT !.articleSummary = GetOpenAISummary(c), !.pc = "L437"]
              : c \in CompletionResults}
      [] st.pc = "L437" ->
           IF Truthy(st.extractedCommentsText)
           THEN {[st EXCEPT !.pc = "W451"]}
           ELSE {TwoUrlsRespond(st, None)}
      [] st.pc = "W451" ->
           {TwoUrlsRespond(st, GetOpenAISummary(c)) : c \in CompletionResults}
      [] OTHER -> {}

\* --- a request served by any of the revisions ---
RevisionSteps(revision, st) ==
    CASE revision = "itemUrl"  -> ItemUrlSteps(st)
      [] revision = "single"   -> SingleSteps(st)
      [] revision = "two-urls" -> TwoUrlsSteps(st)
      [] revision = "current"  ->
             HandlerSteps(st, TwoFetchResults, TwoCompletionResults)

SendInit ==
    /\ hv \in Revisions
    /\ hst \in CASE hv = "itemUrl" ->
                      {ItemUrlEntered(b, k) : b \in ItemUrlBodies, k \in BOOLEAN}
                 [] hv = "single" -> {SingleEntered(b) : b \in TwoBodies}
                 [] hv = "two-urls" ->
                      {TwoUrlsEntered(b, k) : b \in TwoUrlsBodies, k \in BOOLEAN}
                 [] hv = "current" -> {Entered(b) : b \in TwoBodies}
    /\ SumIdle /\ FnIdle /\ FeedIdle /\ ClientIdle /\ TwoIdle /\ ListIdle

\* The handler runs up to its next await, or to its end.
RevisionStep ==
    /\ \E next \in RevisionSteps(hv, hst) : hst' = next
    /\ UNCHANGED <<hv, sumVars, fnVars, feedVars, clientVars, twoVars, listVars>>

SendNext == RevisionStep

SpecSend == SendInit /\ [][SendNext]_vars

\* C26: on every path of every revision of the summarize handler exactly one
\* response is sent: none is sent twice, a request that is over has had its
\* response, and a request that is not over can still go on towards it.
C26_ExactlyOneResponse ==
    /\ Len(hst.responses) <= 1
    /\ hst.pc = "done" => Len(hst.responses) = 1
    /\ hst.pc # "done" => Len(hst.responses) = 0 /\ RevisionSteps(hv, hst) # {}

\* The fetch helper of the one-summary handler failed and answered for
\* itself; the handler sent nothing more.
C26_Witness ==
    /\ hv = "single" /\ hst.pc = "done"
    /\ hst.body # None /\ ~Truthy(hst.body[1].text) /\ Truthy(hst.body[1].url)
    /\ Len(hst.responses) = 1 /\ hst.responses[1].status = 500
    /\ hst.responses[1].body.summary = Some("")

(***************************************************************************)
(* The error field of the text/url/itemUrl handler's response.             *)
(***************************************************************************)
\* The request asks for the source: the article by text or url, the
\* comments by itemUrl.
Requested(source) ==
    IF source = "article" THEN Truthy(body[1].text) \/ Truthy(body[1].url)
    ELSE Truthy(body[1].itemUrl)

\* C27: for a request that is not answered 400, the response has the error
\* field exactly when a fetch/extract step or a completion call of the
\* request failed; so a 200 without error has a summary field for every
\* source the request asked for.
C27_ErrorIffSomethingFailed ==
    (Done /\ HasBody /\ TheResponse.status # 400) =>
        /\ IsSome(TheResponse.body.error) <=> (\E src \in Sources : SourceFailed(src))
        /\ (TheResponse.status = 200 /\ TheResponse.body.error = None) =>
               \A src \in Sources :
                   Requested(src) => IsSome(SummaryField(TheResponse.body, src))

\* Both sources were asked for and nothing failed: a 200 with both summary
\* fields and no error.
C27_Witness ==
    /\ Done /\ HasBody /\ BothUrls
    /\ TheResponse.status = 200 /\ TheResponse.body.error = None
    /\ IsSome(TheResponse.body.articleSummary) /\ IsSome(TheResponse.body.commentSummary)
    /\ \A src \in Sources : ~SourceFailed(src)

(***************************************************************************)
(* FeedListScreen: the selected source, the useEffect that fetches it and  *)
(* the fetches under way.  A press of a source button only sets            *)
(* selectedFeed; fetchFeed, which sets loading, is called by the effect    *)
(* that follows the render.  FeedList takes feeds and navigation only, so  *)
(* nothing on the screen calls onRefresh.                                  *)
(***************************************************************************)
MaxFetches == 5   \* calls of fetchFeed in one run

\* The keys of FEED_SOURCES.
FEED_SOURCES == <<"hackernews", "wikipedia">>
SourceKeys == {FEED_SOURCES[i] : i \in 1..Len(FEED_SOURCES)}

\* How fetch(source.url) and the mapping of its items end: it throws (a
\* non-2xx status, the network, the parser), or gives the items of the feed.
FeedResults(source) ==
    {[ok |-> FALSE, message |-> m, items |-> <<>>] :
         m \in {"HTTP error! status: 500", "Network request failed"}}
        \cup {[ok |-> TRUE, message |-> "", items |-> its] :
                 its \in {<<>>, <<[id |-> "1", sourceType |-> source]>>}}

\* Mounted: the first render is done, its effect is still to run.
ListInit ==
    /\ selectedFeed = FEED_SOURCES[1]
    /\ loading = TRUE /\ error = None /\ feedItems = <<>>
    /\ pendingEffect = Some(FEED_SOURCES[1])
    /\ fetches = {} /\ issued = 0
    /\ SumIdle /\ FnIdle /\ FeedIdle /\ ClientIdle /\ TwoIdle /\ SendIdle

\* fetchFeed(source) up to its await fetch(source.url).
FetchFeedStarts(source) ==
    /\ loading' = TRUE
    /\ error' = None
    /\ feedItems' = <<>>
    /\ fetches' = fetches \cup {[id |-> issued + 1, source |-> source]}
    /\ issued' = issued + 1

\* The effect of the last render runs: fetchFeed(selectedFeed).
RunEffect ==
    /\ pendingEffect # None
    /\ FetchFeedStarts(pendingEffect[1])
    /\ pendingEffect' = None
    /\ UNCHANGED <<selectedFeed, sumVars, fnVars, feedVars, clientVars, twoVars, sendVars>>

\* A source button that is not disabled is pressed: setSelectedFeed(source).
\* The render that follows first runs the effect of the render before it, if
\* that has not run yet, and leaves its own effect to run.
PressSource ==
    /\ ~loading
    /\ issued + 1 + (IF pendingEffect # None THEN 1 ELSE 0) <= MaxFetches
    /\ \E source \in SourceKeys :
         /\ source # selectedFeed
         /\ selectedFeed' = source
         /\ pendingEffect' = Some(source)
    /\ IF pendingEffect # None
       THEN FetchFeedStarts(pendingEffect[1])
       ELSE UNCHANGED <<loading, error, feedItems, fetches, issued>>
    /\ UNCHANGED <<sumVars, fnVars, feedVars, clientVars, twoVars, sendVars>>

\* A call of fetchFeed goes on from its await to its end.
FetchFeedSettles ==
    /\ \E f \in fetches :
         /\ \E result \in FeedResults(f.source) :
              IF result.ok
              THEN feedItems' = result.items /\ UNCHANGED error
              ELSE error' = Some(result.message) /\ feedItems' = <<>>
         /\ fetches' = fetches \ {f}
    /\ loading' = FALSE
    /\ UNCHANGED <<selectedFeed, pendingEffect, issued,
                   sumVars, fnVars, feedVars, clientVars, twoVars, sendVars>>

ListNext == RunEffect \/ PressSource \/ FetchFeedSettles

SpecList == ListInit /\ [][ListNext]_vars

\* C28: on the feed list screen at most one feed fetch is in flight at a
\* time, and the items displayed once loading has ended (and the selection's
\* effect has run) are those of the selected feed, never those of a feed that
\* was selected before.
C28_OneFetchNoStaleItems ==
    /\ Cardinality(fetches) <= 1
    /\ (~loading /\ pendingEffect = None) =>
           \A i \in 1..Len(feedItems) : feedItems[i].sourceType = selectedFeed

(***************************************************************************)
(* What the detail screen posts to /api/summarize.                         *)
(***************************************************************************)
\* The item has a comment link; the item is one whose article is fetched.
HasCommentLink == Truthy(feedItem.commentLink)
ArticleToFetch == feedItem.sourceType # "wikipedia" /\ Truthy(feedItem.articleUrl)

\* C29: the detail screen posts to /api/summarize only for an item with a
\* commentLink or a non-Wikipedia item with a first link (and then it does);
\* the body never lacks both itemUrl and url, it has itemUrl (the
\* commentLink) exactly when there is a commentLink and url (the first link)
\* exactly when the article is to be fetched, and never url for Wikipedia.
C29_RequestCarriesAUrl ==
    /\ request # None =>
          /\ IsSome(request[1].itemUrl) \/ IsSome(request[1].url)
          /\ HasCommentLink \/ ArticleToFetch
          /\ IsSome(request[1].itemUrl) <=> HasCommentLink
          /\ IsSome(request[1].itemUrl) => Truthy(request[1].itemUrl)
                                           /\ request[1].itemUrl = feedItem.commentLink
          /\ IsSome(request[1].url) <=> ArticleToFetch
          /\ IsSome(request[1].url) => Truthy(request[1].url)
                                       /\ request[1].url = feedItem.articleUrl
          /\ feedItem.sourceType = "wikipedia" => request[1].url = None
    /\ (dpc # "mounted" /\ (HasCommentLink \/ ArticleToFetch)) => request # None

\* A Wikipedia item with a comment link and a first link: the request was
\* sent with itemUrl only.
C29_Witness ==
    /\ feedItem.sourceType = "wikipedia"
    /\ HasCommentLink /\ Truthy(feedItem.articleUrl)
    /\ request # None
    /\ IsSome(request[1].itemUrl) /\ request[1].url = None

(***************************************************************************)
(* Summary and error of a section after the request has settled.           *)
(***************************************************************************)
\* The message the catch block gets for the reply.
FailureMessage ==
    IF reply[1].kind = "notok"
    THEN "HTTP error! status: " \o ToString(reply[1].status) \o ", Message: "
             \o BackendMessage(reply[1].data)
    ELSE IF reply[1].data # "" THEN reply[1].data
    ELSE "Failed to fetch summaries. Is the backend server running?"

\* The article summary on display came from the request (for a Wikipedia
\* item the description shown from the start did not).
FetchedArticleSummary ==
    /\ IsSome(articleSummary)
    /\ reply # None /\ reply[1].kind = "ok"
    /\ articleSummary = reply[1].data.articleSummary

\* C30: once the summarize request has settled, no section holds both a
\* summary fetched by it and an error; after a non-2xx answer or a thrown
\* network call every requested section holds the error message and no
\* fetched summary, and a section that was not requested holds no error.
C30_SummaryOrError ==
    dpc = "settled" =>
        /\ ~(IsSome(commentSummary) /\ IsSome(commentError))
        /\ ~(FetchedArticleSummary /\ IsSome(articleError))
        /\ reply[1].kind \in {"notok", "throw"} =>
             /\ IF HasCommentLink
                THEN commentError = Some(FailureMessage) /\ commentSummary = None
                ELSE commentError = None
             /\ IF ArticleToFetch
                THEN articleError = Some(FailureMessage) /\ articleSummary = None
                ELSE articleError = None /\ ~FetchedArticleSummary

\* A Hacker News item without a first link, whose request was answered 500:
\* the comment section holds the error, the article section none.
C30_Witness ==
    /\ dpc = "settled"
    /\ feedItem.sourceType = "hackernews"
    /\ HasCommentLink /\ ~ArticleToFetch
    /\ reply[1].kind = "notok" /\ reply[1].status = 500
    /\ commentError = Some(FailureMessage) /\ commentSummary = None
    /\ articleError = None


====
